---------------------------- MODULE Spec2Model ----------------------------
(***************************************************************************)
(* Model of the holodok22bot conversation dispatch and persistence engine. *)
(*                                                                         *)
(* One invocation of index.process_update is the cycle                     *)
(*   load_persistence_data -> group 0 handler -> on_every (group 1)        *)
(*   -> process_update_tail (flag stripping, reset, the single save).      *)
(* A process is a warm serverless instance: the module-level dispatcher    *)
(* and its YDBPersistence object live across invocations of that process   *)
(* until the instance is recycled (cold_start).                            *)
(*                                                                         *)
(* Python dictionaries are functions whose DOMAIN is the set of keys.      *)
(* A nullable database cell is a sequence: << >> is NULL, <<v>> holds v.   *)
(* A JSON document is modelled by the object it denotes: json.dumps and    *)
(* json.loads are inverse on string-keyed objects of strings, booleans     *)
(* and lists, which is all the bot stores; what is modelled step by step   *)
(* is the shape conversion done by _dump_into_json and update_data.        *)
(***************************************************************************)
EXTENDS Naturals, Sequences, FiniteSets, TLC

----------------------------------------------------------------------------
(* Bounds of the model *)

\* Size of the meme catalogue (static_data.memes_data is not part of src/).
NumMemes == 2

\* The usage counter of a row is followed up to this value; a row that
\* reached it is only known to have handled at least that many events.
MaxUsage == 2

----------------------------------------------------------------------------
(* Python dict helpers *)

EmptyDict == [x \in {} |-> TRUE]

Put(d, k, v) == [x \in (DOMAIN d) \cup {k} |-> IF x = k THEN v ELSE d[x]]

Pop(d, k) == [x \in (DOMAIN d) \ {k} |-> d[x]]

Get(d, k, default) == IF k \in DOMAIN d THEN d[k] ELSE default

PopAll(d, ks) == [x \in (DOMAIN d) \ ks |-> d[x]]

SetMin(S) == CHOOSE x \in S : \A y \in S : x <= y

----------------------------------------------------------------------------
(* Static data of the program *)

\* User identities (Update.effective_user.id), written as JSON would key them.
Users == {"u1", "u2"}

Procs == {"p1", "p2"}

MemeIds == 1..NumMemes

\* ConversationHandler names given at registration.
ConvNames == {"post_channel_conv", "meetings_conv", "mortuary_conv", "principles_conv"}

\* State tokens; END is ConversationHandler.END, None is "no state".
END == "END"

None == "None"

\* Commands and callbacks whose handlers only send a reply: the camps, map,
\* shuttle and shelter menus and timetable_stop (registered before
\* mortuary_conv), and the sos menu (registered after principles_conv).
MenuEvents == {"/camps", "CAMPS_START", "CAMPS_STOP", "TIMETABLE_STOP",
               "/map", "MAP_START", "MAP_STOP",
               "/shuttle", "SHUTTLE_START", "SHUTTLE_STOP",
               "/shalashfm", "SHELTER_START", "SHELTER_STOP"}

SosEvents == {"/sos", "SOS_START", "SOS_STOP"}

Matcher(events, callback) == [events |-> events, callback |-> callback]

\* entry_points of each ConversationHandler, in declaration order.
entry_points(name) ==
    CASE name = "post_channel_conv" ->
           << Matcher({"/publish"}, "post_channel_start"),
              Matcher({"POST_CHANNEL_START"}, "post_channel_start") >>
      [] name = "meetings_conv" ->
           << Matcher({"/meetings"}, "meetings_start"),
              Matcher({"MEETINGS_START"}, "meetings_start") >>
      [] name = "mortuary_conv" ->
           << Matcher({"/memes"}, "mortuary_start"),
              Matcher({"MORTUARY_START"}, "mortuary_start") >>
      [] name = "principles_conv" ->
           << Matcher({"/principles"}, "principles_start"),
              Matcher({"PRINCIPLES_START"}, "principles_start") >>

\* Message events accepted by the filters used in the state tables.
TextEvents == {"text"}

PhotoVideoEvents == {"photo", "video", "photo_simsalabim"}

MediaEvents == {"animation", "audio", "document"} \cup PhotoVideoEvents

\* states of each ConversationHandler: state -> ordered matchers.
conv_states(name) ==
    CASE name = "post_channel_conv" ->
           [s \in {"POST_CHANNEL_GET_MESSAGE", "POST_CHANNEL_GET_PRIVACY",
                   "POST_CHANNEL_GET_SENDING_CONFIRMATION"} |->
              CASE s = "POST_CHANNEL_GET_MESSAGE" ->
                     << Matcher(TextEvents \cup MediaEvents, "post_channel_message") >>
                [] s = "POST_CHANNEL_GET_PRIVACY" ->
                     << Matcher({"POST_CHANNEL_PUBLIC", "POST_CHANNEL_PRIVATE"},
                                "post_channel_privacy") >>
                [] s = "POST_CHANNEL_GET_SENDING_CONFIRMATION" ->
                     << Matcher({"POST_CHANNEL_CONFIRM_SENDING"},
                                "post_channel_confirm_sending") >>]
      [] name = "meetings_conv" ->
           [s \in {"MEETINGS_GET_NAME", "MEETINGS_GET_PHOTO", "MEETINGS_GET_BIO",
                   "MEETINGS_GET_PARTICIPATION_CONFIRMATION",
                   "MEETINGS_CHOOSE_ACTION", "MEETINGS_CHOOSE_PERSON_ACTION",
                   "MEETINGS_GET_CHANGE_CONFIRMATION",
                   "MEETINGS_GET_REMOVAL_CONFIRMATION"} |->
              CASE s = "MEETINGS_GET_NAME" ->
                     << Matcher(TextEvents, "meetings_name") >>
                [] s = "MEETINGS_GET_PHOTO" ->
                     << Matcher(PhotoVideoEvents, "meetings_photo") >>
                [] s = "MEETINGS_GET_BIO" ->
                     << Matcher(TextEvents, "meetings_bio") >>
                [] s = "MEETINGS_GET_PARTICIPATION_CONFIRMATION" ->
                     << Matcher({"MEETINGS_CONFIRM_PARTICIPATION"},
                                "meetings_confirm_participation") >>
                [] s = "MEETINGS_CHOOSE_ACTION" ->
                     << Matcher({"MEETINGS_SHOW_PEOPLE"}, "meetings_show_people"),
                        Matcher({"MEETINGS_SHOW_LIKES"}, "meetings_show_likes"),
                        Matcher({"MEETINGS_CHANGE"}, "meetings_change"),
                        Matcher({"MEETINGS_REMOVE"}, "meetings_remove") >>
                [] s = "MEETINGS_CHOOSE_PERSON_ACTION" ->
                     << Matcher({"MEETINGS_SHOW_PEOPLE_LEFT"}, "meetings_show_people_left"),
                        Matcher({"MEETINGS_LIKE"}, "meetings_like"),
                        Matcher({"MEETINGS_SHOW_PEOPLE_RIGHT"}, "meetings_show_people_right") >>
                [] s = "MEETINGS_GET_CHANGE_CONFIRMATION" ->
                     << Matcher({"MEETINGS_CONFIRM_CHANGE"}, "meetings_confirm_change") >>
                [] s = "MEETINGS_GET_REMOVAL_CONFIRMATION" ->
                     << Matcher({"MEETINGS_CONFIRM_REMOVAL"}, "meetings_confirm_removal") >>]
      [] name = "mortuary_conv" ->
           [s \in {"MORTUARY_CHOOSE_ACTION"} |->
              << Matcher({"MORTUARY_SHOW_MEME"}, "mortuary_show_meme"),
                 Matcher({"MORTUARY_START_OVER"}, "mortuary_start_over") >>]
      [] name = "principles_conv" ->
           [s \in {"PRINCIPLES_CHOOSE_ACTION"} |->
              << Matcher({"PRINCIPLES_PAGE"}, "principles_page") >>]

\* Variant of a ConversationHandler registered without fallbacks.
no_fallbacks(name) == << >>

\* fallbacks of each ConversationHandler.
fallbacks(name) ==
    CASE name = "post_channel_conv" ->
           << Matcher({"POST_CHANNEL_STOP"}, "post_channel_stop") >>
      [] name = "meetings_conv" ->
           << Matcher({"MEETINGS_STOP"}, "meetings_stop") >>
      [] name = "mortuary_conv" ->
           << Matcher({"MORTUARY_STOP"}, "mortuary_stop") >>
      [] name = "principles_conv" ->
           << Matcher({"PRINCIPLES_STOP"}, "principles_stop") >>

\* Variant of a ConversationHandler registered without allow_reentry.
allow_reentry_off(name) == FALSE

\* Every ConversationHandler is registered with allow_reentry=True.
allow_reentry(name) == TRUE

\* Group 0 in registration order.  A plain handler is a one-matcher list,
\* a conversation is named by its ConversationHandler.
Group0 ==
    << [conv |-> "", matchers |-> << Matcher({"/start"}, "on_start") >>],
       [conv |-> "", matchers |-> << Matcher({"/help"}, "on_help") >>],
       [conv |-> "post_channel_conv", matchers |-> << >>],
       [conv |-> "meetings_conv", matchers |-> << >>],
       [conv |-> "", matchers |-> << Matcher({"/timetable", "TIMETABLE_START"}, "timetable_start") >>],
       [conv |-> "", matchers |-> << Matcher(MenuEvents, "menu_reply") >>],
       [conv |-> "mortuary_conv", matchers |-> << >>],
       [conv |-> "principles_conv", matchers |-> << >>],
       [conv |-> "", matchers |-> << Matcher(SosEvents, "menu_reply") >>],
       [conv |-> "", matchers |-> << Matcher({"photo_simsalabim"}, "on_media") >>] >>

----------------------------------------------------------------------------
(* State *)

VARIABLES
    store,            \* users table: user -> row
    p_user_data,      \* YDBPersistence.user_data of each process: user -> dict
    p_conversations,  \* YDBPersistence.conversations: name -> (user -> state)
    d_user_data,      \* Dispatcher.user_data of each process: user -> dict
    h_conversations,  \* ConversationHandler.conversations: name -> (user -> state)
    pc,               \* position of each process in process_update
    update,           \* the Update each process is handling
    inv,              \* what happened in the current / last invocation
    registration      \* add_handlers at import: the flags given and the error

vars == << store, p_user_data, p_conversations, d_user_data, h_conversations,
           pc, update, inv, registration >>

NoConversations == [n \in ConvNames |-> EmptyDict]

AbsentRow == [exists |-> FALSE, persistence_data |-> << >>,
              meetings_ts |-> << >>, usage |-> 0, duplicated |-> FALSE]

NewRow == [exists |-> TRUE, persistence_data |-> << >>,
           meetings_ts |-> << >>, usage |-> 0, duplicated |-> FALSE]

NoUpdate == [user |-> "u1", event |-> "none"]

\* The settings a ConversationHandler is constructed with.
Flags(per_user, per_chat, per_message, persistent) ==
    [per_user |-> per_user, per_chat |-> per_chat,
     per_message |-> per_message, persistent |-> persistent]

\* The settings of the four ConversationHandlers of add_handlers.
conv_flags(name) == Flags(TRUE, FALSE, FALSE, TRUE)

\* The registration of an instance whose import of index.py succeeded:
\* dispatcher.handlers[0] holds every handler of group 0, in order.
Registered ==
    [flags |-> [n \in ConvNames |-> conv_flags(n)], error |-> "none",
     handlers |-> [i \in 1..Len(Group0) |-> i]]

\* Record of one invocation: the cell read by the load, the callback that
\* group 0 selected with its conversation and the token it returned
\* ("raised" when it raised), whether any handler raised, the flags popped
\* by the tail, the value bound to the save (<< >> when no save was issued
\* yet), the numbers of queries issued, the callbacks run, in order, and
\* the exception that ended the invocation in the load or in the save
\* ("none" otherwise), the outcome of the query of the save and the outcome
\* of the reply of the group 0 callback ("none" when it sent none), and the
\* texts and the bound parameters of the queries of the persistence.
\* `profile` is a history of the user's profile-change flow: the profile
\* fields of the document that was stored when the change was confirmed,
\* << >> outside the flow; it outlives the invocation and the instance.
NewInvocation ==
    [loaded |-> << >>, row_found |-> FALSE, handler |-> "none",
     conv |-> "", returned |-> "none",
     raised |-> FALSE, unknown |-> FALSE, error |-> FALSE,
     saved |-> << >>, loads |-> 0, saves |-> 0,
     reads |-> 0, writes |-> 0, done |-> FALSE, ran |-> << >>,
     aborted |-> "none", save_query |-> "none", reply |-> "none",
     texts |-> << >>, parameters |-> << >>, profile |-> << >>]

\* The fields of the meetings profile a scratch holds.
ProfileKeys == {"meetings_name", "meetings_link", "meetings_file_type",
                "meetings_file_id", "meetings_bio", "meetings_caption"}

profile_fields(ud) == [k \in ProfileKeys \cap DOMAIN ud |-> ud[k]]

\* The history of the profile-change flow after a callback of group 0:
\* meetings_confirm_change opens the flow with the profile of the document
\* the invocation loaded when that document is one of a participant, the
\* steps of the questionnaire and the fallback keep it, anything else (a
\* fault included) closes it.
change_flow(callback, raised, loaded, profile) ==
    IF raised THEN << >>
    ELSE IF callback = "meetings_confirm_change"
    THEN LET ud == Get(IF loaded = << >> THEN << >> ELSE loaded[1],
                       "user_data", << >>)
         IN  IF Get(ud, "in_meetings", FALSE) = TRUE
             THEN << profile_fields(ud) >>
             ELSE << >>
    ELSE IF callback \in {"meetings_name", "meetings_photo", "meetings_bio",
                          "meetings_stop"}
    THEN profile
    ELSE << >>

----------------------------------------------------------------------------
(* Matching: telegram.ext handler selection as configured by add_handlers *)

\* First matcher of an ordered list accepting the event, "none" otherwise.
first_match(matchers, event) ==
    LET hits == {i \in 1..Len(matchers) : event \in matchers[i].events}
    IN  IF hits = {} THEN "none" ELSE matchers[SetMin(hits)].callback

\* ConversationHandler.check_update for one conversation whose recorded
\* state for the user is `state` (None when there is no entry): entry points
\* are tried when the conversation is not started or allow_reentry is set,
\* then the matchers of the current state, then the fallbacks.
conversation_check(name, state, event) ==
    LET entry == IF state = None \/ allow_reentry(name)
                 THEN first_match(entry_points(name), event)
                 ELSE "none"
        in_state == IF state \in DOMAIN conv_states(name)
                    THEN first_match(conv_states(name)[state], event)
                    ELSE "none"
    IN  IF entry # "none" THEN entry
        ELSE IF state = None THEN "none"
        ELSE IF in_state # "none" THEN in_state
        ELSE first_match(fallbacks(name), event)

\* The state a ConversationHandler resolves for the user.
current_state(convs, name, user) == Get(convs[name], user, None)

\* check_update of the i-th handler of group 0.
check_update(i, convs, user, event) ==
    IF Group0[i].conv = ""
    THEN first_match(Group0[i].matchers, event)
    ELSE conversation_check(Group0[i].conv,
                            current_state(convs, Group0[i].conv, user), event)

\* Variant of the selection that takes the last accepting handler.
selected_index_last(convs, user, event) ==
    LET hits == {i \in 1..Len(Group0) : check_update(i, convs, user, event) # "none"}
    IN  IF hits = {} THEN 0 ELSE CHOOSE i \in hits : \A j \in hits : j <= i

\* Index of the first handler of group 0 that accepts the event; the
\* catch-all TypeHandler(Update, on_unknown) is registered last.
selected_index(convs, user, event) ==
    LET hits == {i \in 1..Len(Group0) : check_update(i, convs, user, event) # "none"}
    IN  IF hits = {} THEN 0 ELSE SetMin(hits)

\* The callback group 0 runs for the event.
selected_callback(convs, user, event) ==
    LET i == selected_index(convs, user, event)
    IN  IF i = 0 THEN "on_unknown" ELSE check_update(i, convs, user, event)

\* The conversation owning the selected callback ("" for a plain handler).
selected_conv(convs, user, event) ==
    LET i == selected_index(convs, user, event)
    IN  IF i = 0 THEN "" ELSE Group0[i].conv

----------------------------------------------------------------------------
(* Persistence facade: persistence.py *)

\* Variant of the queries that formats the user id into the text.
get_data_query_formatted(user) ==
    [text |-> << "SELECT persistence_data FROM users WHERE user_id = ", user >>,
     parameters |-> EmptyDict]

\* The query of YDBPersistence.get_data: the text is built from the names
\* of the table and the columns, the user id is bound to $user_id.
get_data_query(user) ==
    [text |-> << "DECLARE $user_id AS Uint64; SELECT persistence_data FROM users WHERE user_id = ",
                 "$user_id" >>,
     parameters |-> [user_id |-> user]]

\* The query of YDBPersistence.update_database: the text depends on `error`
\* only, the user id and the dumped document are bound.
update_database_query(user, error, cell) ==
    IF error
    THEN [text |-> << "DECLARE $user_id AS Uint64; UPDATE users SET persistence_data = NULL, meetings_ts = NULL WHERE user_id = ",
                      "$user_id" >>,
          parameters |-> [user_id |-> user]]
    ELSE [text |-> << "DECLARE $user_id AS Uint64; DECLARE $data AS Json; UPDATE users SET persistence_data = ",
                      "$data", " WHERE user_id = ", "$user_id" >>,
          parameters |-> [user_id |-> user, data |-> cell[1]]]

\* Variant of get_data that takes the first of several rows.
get_data_first_row(user) == "none"

\* YDBPersistence.get_data on the result set: LookupError when the table
\* has more than one row for the user.
get_data_rows(user) ==
    IF store[user].exists /\ store[user].duplicated THEN "LookupError" ELSE "none"

\* Variant of get_data that answers an absent row with a default document.
get_data_default_document(user) ==
    IF ~store[user].exists THEN [user_data |-> EmptyDict]
    ELSE IF store[user].persistence_data = << >> THEN EmptyDict
    ELSE store[user].persistence_data[1]

\* YDBPersistence.get_data: the document of the user's row, {} when the row
\* is absent or its cell is NULL.
get_data(user) ==
    IF ~store[user].exists THEN EmptyDict
    ELSE IF store[user].persistence_data = << >> THEN EmptyDict
    ELSE store[user].persistence_data[1]

\* YDBPersistence.update_data, user_data part: replaced only when the
\* document has a user_data section.
update_data_user(pud, user, data) ==
    IF "user_data" \in DOMAIN data
    THEN Put(pud, user, data["user_data"])
    ELSE pud

\* YDBPersistence.update_data, conversations part: update_conversation for
\* every entry of the document; other entries are left as they are.
update_data_conversations(pconv, user, data) ==
    [n \in ConvNames |->
        IF "conversations" \in DOMAIN data /\ n \in DOMAIN data["conversations"]
        THEN Put(pconv[n], user, data["conversations"][n])
        ELSE pconv[n]]

\* Variant of the filter of _dump_into_json that keeps the entries whose
\* state is None.
dumped_conversations_keeping_none(pconv, user) ==
    {n \in ConvNames : user \in DOMAIN pconv[n]}

\* Names of the conversations of the user with a state that is not None.
dumped_conversations(pconv, user) ==
    {n \in ConvNames : user \in DOMAIN pconv[n] /\ pconv[n][user] # None}

\* Whether _dump_into_json emits the user_data section.
dumps_user_data(pud, user) == user \in DOMAIN pud

\* YDBPersistence._dump_into_json: the document for the user.
dump_into_json(pud, pconv, user) ==
    LET names == dumped_conversations(pconv, user)
        keys == (IF dumps_user_data(pud, user) THEN {"user_data"} ELSE {})
                \cup (IF names # {} THEN {"conversations"} ELSE {})
    IN  [k \in keys |->
            IF k = "user_data" THEN pud[user]
            ELSE [n \in names |-> pconv[n][user]]]

\* Variant of update_database whose error query nulls the meetings timestamp
\* and leaves the document column as it is.
update_database_keeping_document(table, pud, pconv, user, error) ==
    IF ~table[user].exists THEN table
    ELSE IF error
    THEN [table EXCEPT ![user].meetings_ts = << >>]
    ELSE [table EXCEPT ![user].persistence_data =
                            << dump_into_json(pud, pconv, user) >>]

\* Variant of update_database whose error query nulls the document column
\* and leaves the meetings timestamp as it is.
update_database_keeping_meetings_ts(table, pud, pconv, user, error) ==
    IF ~table[user].exists THEN table
    ELSE IF error
    THEN [table EXCEPT ![user].persistence_data = << >>]
    ELSE [table EXCEPT ![user].persistence_data =
                            << dump_into_json(pud, pconv, user) >>]

\* Variant of update_database whose UPDATE has no WHERE clause: every row
\* of the table is written.
update_database_every_row(table, pud, pconv, user, error) ==
    [u \in Users |->
        IF ~table[u].exists THEN table[u]
        ELSE IF error
        THEN [table[u] EXCEPT !.persistence_data = << >>, !.meetings_ts = << >>]
        ELSE [table[u] EXCEPT !.persistence_data =
                                 << dump_into_json(pud, pconv, user) >>]]

\* Variant of update_database whose normal query merges the conversations
\* of the dumped document into those of the stored one.
update_database_merging(table, pud, pconv, user, error) ==
    LET old == IF table[user].persistence_data = << >> THEN EmptyDict
               ELSE table[user].persistence_data[1]
        new == dump_into_json(pud, pconv, user)
        oldc == Get(old, "conversations", EmptyDict)
        newc == Get(new, "conversations", EmptyDict)
        both == [n \in DOMAIN oldc \cup DOMAIN newc |->
                    IF n \in DOMAIN newc THEN newc[n] ELSE oldc[n]]
    IN  IF ~table[user].exists THEN table
        ELSE IF error
        THEN [table EXCEPT ![user].persistence_data = << >>,
                           ![user].meetings_ts = << >>]
        ELSE [table EXCEPT ![user].persistence_data =
                 << IF DOMAIN both = {} THEN new
                    ELSE Put(new, "conversations", both) >>]

\* Variant of update_database whose normal query patches the conversations
\* section and leaves the rest of the stored document as it is.
update_database_patching(table, pud, pconv, user, error) ==
    LET old == IF table[user].persistence_data = << >> THEN EmptyDict
               ELSE table[user].persistence_data[1]
        new == dump_into_json(pud, pconv, user)
    IN  IF ~table[user].exists THEN table
        ELSE IF error
        THEN [table EXCEPT ![user].persistence_data = << >>,
                           ![user].meetings_ts = << >>]
        ELSE [table EXCEPT ![user].persistence_data =
                 << IF "conversations" \in DOMAIN new
                    THEN Put(old, "conversations", new["conversations"])
                    ELSE Pop(old, "conversations") >>]

\* Variant of update_database whose normal query sets the meetings timestamp
\* to NULL as the error query does.
update_database_nulling_meetings_ts(table, pud, pconv, user, error) ==
    IF ~table[user].exists THEN table
    ELSE [table EXCEPT ![user].persistence_data = 
                              IF error THEN << >>
                              ELSE << dump_into_json(pud, pconv, user) >>,
                       ![user].meetings_ts = << >>]

\* The UPDATE of update_database applied to the table: the error variant
\* nulls the document and the meetings timestamp, the normal variant binds
\* the dumped document.  An UPDATE changes nothing when no row matches.
update_database(table, pud, pconv, user, error) ==
    IF ~table[user].exists THEN table
    ELSE IF error
    THEN [table EXCEPT ![user].persistence_data = << >>,
                       ![user].meetings_ts = << >>]
    ELSE [table EXCEPT ![user].persistence_data =
                            << dump_into_json(pud, pconv, user) >>]

\* The value update_database binds to the document column.
saved_cell(pud, pconv, user, error) ==
    IF error THEN << >> ELSE << dump_into_json(pud, pconv, user) >>

\* ConversationHandler._update_state on the handler's own table: END drops
\* the key, None changes nothing, any other state is recorded.
update_state_handler(hc, user, new_state) ==
    IF new_state = END THEN Pop(hc, user)
    ELSE IF new_state = None THEN hc
    ELSE Put(hc, user, new_state)

\* ConversationHandler._update_state on the persistence: END is stored as
\* None when the handler had the key, any other state is stored as it is.
update_state_persistence(pc_, hc, user, new_state) ==
    IF new_state = END
    THEN IF user \in DOMAIN hc THEN Put(pc_, user, None) ELSE pc_
    ELSE IF new_state = None THEN pc_
    ELSE Put(pc_, user, new_state)

----------------------------------------------------------------------------
(* Environment *)

\* Outcome of the outbound replies of a handler: reply_message swallows a
\* time out and re-raises every other error.
ReplyOutcomes == {"ok", "timeout", "error"}

\* Outcome of a query a handler sends through ydb_client.execute_query.
QueryOutcomes == {"ok", "fail"}

\* Outcome of update.effective_message.reply_text in on_error, which is not
\* wrapped: any error of it leaves on_error before ERROR is set.
ApologyOutcomes == {"ok", "error"}

\* Variant of reply_message that re-raises a time out as well.
reply_message_raising_timeout(reply) == reply # "ok"

\* helpers.reply_message (and reply_or_edit_message, which ends in it or
\* handles the same way): TRUE when the call raises.  A time out is logged
\* and swallowed, every other error that was not recovered is re-raised.
reply_message(reply) == reply = "error"

\* Apology outcomes that matter: on_error runs only when a handler raised.
apologies(raised) == IF raised THEN ApologyOutcomes ELSE {"ok"}

----------------------------------------------------------------------------
(* Initial state and the load *)

TypeOK ==
    /\ pc \in [Procs -> {"import", "failed", "idle", "group0", "group1", "tail"}]
    /\ \A u \in Users : store[u].usage \in 0..MaxUsage

\* Rows of users that are active in a specification either do not exist or
\* were created by upsert_new_user (/start) and hold nothing yet.
InitRows(active) ==
    {t \in [Users -> {AbsentRow, NewRow}] : \A u \in Users \ active : t[u] = AbsentRow}

InitWith(active) ==
    /\ store \in InitRows(active)
    /\ p_user_data = [p \in Procs |-> EmptyDict]
    /\ p_conversations = [p \in Procs |-> NoConversations]
    /\ d_user_data = [p \in Procs |-> EmptyDict]
    /\ h_conversations = [p \in Procs |-> NoConversations]
    /\ pc = [p \in Procs |-> "idle"]
    /\ update = [p \in Procs |-> NoUpdate]
    /\ inv = [p \in Procs |-> NewInvocation]
    /\ registration = [p \in Procs |-> Registered]

Init == InitWith({"u1"})

\* index.process_update up to dispatcher.load_persistence_data: the Update is
\* parsed, the user's document is read and merged into the persistence, and
\* the dispatcher and the conversation handlers take their copies.
\* The records inv and update describe the latest invocation only: those of
\* the instances that are not running are cleared when an event arrives.
load_persistence_data(p, user, event) ==
    /\ pc[p] = "idle"
    /\ get_data_rows(user) = "none"
    /\ LET data == get_data(user)
           pud == update_data_user(p_user_data[p], user, data)
           pconv == update_data_conversations(p_conversations[p], user, data)
       IN  /\ p_user_data' = [p_user_data EXCEPT ![p] = pud]
           /\ p_conversations' = [p_conversations EXCEPT ![p] = pconv]
           /\ d_user_data' = [d_user_data EXCEPT ![p] = pud]
           /\ h_conversations' = [h_conversations EXCEPT ![p] = pconv]
    /\ update' = [q \in Procs |->
                     IF q = p THEN [user |-> user, event |-> event]
                     ELSE IF pc[q] = "idle" THEN NoUpdate ELSE update[q]]
    /\ inv' = [q \in Procs |->
                  IF q = p
                  THEN [NewInvocation EXCEPT
                           !.texts = << get_data_query(user).text >>,
                           !.parameters = << get_data_query(user).parameters >>,
                           !.loaded = store[user].persistence_data,
                           !.row_found = store[user].exists,
                           !.loads = 1,
                           !.profile = inv[p].profile]
                  ELSE IF pc[q] = "idle" THEN NewInvocation ELSE inv[q]]
    /\ pc' = [pc EXCEPT ![p] = "group0"]
    /\ UNCHANGED << store, registration >>

\* index.process_update when get_data raises inside load_persistence_data:
\* the SELECT failed after the retries of retry_operation_sync, or the table
\* has several rows for the user.  The call is not wrapped in try/except:
\* the exception leaves process_update before update_data, the dispatcher
\* and the save.
load_raises(p, user, event) ==
    /\ pc[p] = "idle"
    /\ \E query \in QueryOutcomes :
          LET raised == IF query = "fail" THEN "StoreError" ELSE get_data_rows(user)
          IN  /\ raised # "none"
              /\ inv' = [q \in Procs |->
                            IF q = p
                            THEN [NewInvocation EXCEPT
                                     !.texts = << get_data_query(user).text >>,
                                     !.parameters = << get_data_query(user).parameters >>,
                                     !.loads = 1,
                                                       !.aborted = raised]
                            ELSE IF pc[q] = "idle" THEN NewInvocation ELSE inv[q]]
    /\ update' = [q \in Procs |->
                     IF q = p THEN [user |-> user, event |-> event]
                     ELSE IF pc[q] = "idle" THEN NoUpdate ELSE update[q]]
    /\ UNCHANGED << store, p_user_data, p_conversations, d_user_data,
                    h_conversations, pc, registration >>

\* The serverless instance is recycled between invocations: the next
\* invocation of this process starts from freshly constructed objects.
cold_start(p) ==
    /\ pc[p] = "idle"
    /\ p_user_data[p] # EmptyDict \/ p_conversations[p] # NoConversations
    /\ p_user_data' = [p_user_data EXCEPT ![p] = EmptyDict]
    /\ p_conversations' = [p_conversations EXCEPT ![p] = NoConversations]
    /\ d_user_data' = [d_user_data EXCEPT ![p] = EmptyDict]
    /\ h_conversations' = [h_conversations EXCEPT ![p] = NoConversations]
    /\ update' = [update EXCEPT ![p] = NoUpdate]
    /\ inv' = [inv EXCEPT ![p] = [NewInvocation EXCEPT !.profile = inv[p].profile]]
    /\ UNCHANGED << store, pc, registration >>

----------------------------------------------------------------------------
(* Group 0: the business handlers of handlers.py *)

\* context.user_data of the Update in flight: dispatcher.user_data[user],
\* a defaultdict entry that is created empty when missing.
context_user_data(p) == Get(d_user_data[p], update[p].user, EmptyDict)

\* The callback group 0 selects for the Update in flight.
callback_of(p) ==
    selected_callback(h_conversations[p], update[p].user, update[p].event)

\* on_error up to its last line: notify_developer never raises, the apology
\* reply may; only after it ERROR is set in the scratch.
on_error(ud, apology) == IF apology = "ok" THEN Put(ud, "ERROR", TRUE) ELSE ud

\* Variant of the dispatcher that stops at a fault: the groups after the
\* one whose handler raised are skipped.
after_group0_stop_on_fault(raised) == IF raised THEN "tail" ELSE "group1"

\* Dispatcher.process_update walks the groups in order: after group 0 comes
\* group 1 (on_every), also when the handler of group 0 raised and the error
\* handler has run.
after_group0(raised) == "group1"

\* The end of a group 0 handler inside Dispatcher.process_update.  `ud` is
\* the scratch as the callback left it, `new_state` what it returned; a
\* callback that raised goes through on_error and records no state.
finish_group0_of(p, user, conv, callback, ud2, new_state, raised, table, nreads, nwrites, reply) ==
    /\ d_user_data' = [d_user_data EXCEPT ![p] = Put(@, user, ud2)]
    /\ h_conversations' =
          IF ~raised /\ conv # ""
          THEN [h_conversations EXCEPT ![p][conv] =
                    update_state_handler(@, user, new_state)]
          ELSE h_conversations
    /\ p_conversations' =
          IF ~raised /\ conv # ""
          THEN [p_conversations EXCEPT ![p][conv] =
                    update_state_persistence(@, h_conversations[p][conv],
                                             user, new_state)]
          ELSE p_conversations
    /\ store' = table
    /\ inv' = [inv EXCEPT ![p].ran = Append(@, callback),
                          ![p].reply = reply,
                          ![p].handler = callback,
                          ![p].conv = conv,
                          ![p].returned = IF raised THEN "raised" ELSE new_state,
                          ![p].raised = raised,
                          ![p].reads = @ + nreads,
                          ![p].writes = @ + nwrites,
                          ![p].profile = change_flow(callback, raised,
                                                     inv[p].loaded, @)]
    /\ pc' = [pc EXCEPT ![p] = after_group0(raised)]
    /\ UNCHANGED << p_user_data, update, registration >>

\* finish_group0_of for the handler group 0 selected for the Update in flight.
finish_group0(p, ud, new_state, raised, apology, table, nreads, nwrites, reply) ==
    finish_group0_of(p, update[p].user,
                     selected_conv(h_conversations[p], update[p].user, update[p].event),
                     callback_of(p),
                     IF raised THEN on_error(ud, apology) ELSE ud,
                     new_state, raised, table, nreads, nwrites, reply)

\* A callback that only replies and returns `new_state`.
reply_only(p, new_state) ==
    \E reply \in ReplyOutcomes : \E apology \in apologies(reply_message(reply)) :
        finish_group0(p, context_user_data(p), new_state, reply_message(reply),
                      apology, store, 0, 0, reply)

\* YDBClient.upsert_new_user: the row exists afterwards; the columns the
\* UPSERT does not name keep their values.
upsert_new_user(table, user) ==
    IF table[user].exists THEN table ELSE [table EXCEPT ![user] = NewRow]

\* on_start: on_help, on_top, then the upsert of the user's row.
on_start(p) ==
    /\ pc[p] = "group0" /\ callback_of(p) = "on_start"
    /\ \E reply \in ReplyOutcomes : \E query \in QueryOutcomes :
       \E apology \in apologies(reply_message(reply) \/ query = "fail") :
          IF reply_message(reply)
          THEN finish_group0(p, context_user_data(p), None, TRUE, apology, store, 0, 0, reply)
          ELSE finish_group0(p, context_user_data(p), None, query = "fail", apology,
                             IF query = "ok"
                             THEN upsert_new_user(store, update[p].user)
                             ELSE store,
                             0, 1, reply)

on_help(p) ==
    /\ pc[p] = "group0" /\ callback_of(p) = "on_help"
    /\ reply_only(p, None)

\* camps_start .. shelter_stop, sos_start, sos_stop: a reply, no state.
menu_reply(p) ==
    /\ pc[p] = "group0" /\ callback_of(p) = "menu_reply"
    /\ reply_only(p, None)

\* timetable_start: one read of the timetable table, then a reply.
timetable_start(p) ==
    /\ pc[p] = "group0" /\ callback_of(p) = "timetable_start"
    /\ \E query \in QueryOutcomes : \E reply \in ReplyOutcomes :
       \E apology \in apologies(query = "fail" \/ reply_message(reply)) :
          finish_group0(p, context_user_data(p), None,
                        query = "fail" \/ reply_message(reply), apology, store, 1, 0, reply)

on_media(p) ==
    /\ pc[p] = "group0" /\ callback_of(p) = "on_media"
    /\ reply_only(p, None)

\* Keys of an in-flight post-to-channel draft, removed by on_unknown.
PostChannelKeys == {"post_channel_message", "post_channel_message_type",
                    "post_channel_file_id", "post_channel_full_message",
                    "post_channel_public_footer", "post_channel_private_footer",
                    "post_channel_footer_max_length"}

\* The body of on_unknown after its reply: the draft keys are removed and
\* UNKNOWN is set.
on_unknown_body(ud) == Put(PopAll(ud, PostChannelKeys), "UNKNOWN", TRUE)

\* The catch-all TypeHandler: on_unknown replies first, then marks.
on_unknown(p) ==
    /\ pc[p] = "group0" /\ callback_of(p) = "on_unknown"
    /\ \E reply \in ReplyOutcomes : \E apology \in apologies(reply_message(reply)) :
          finish_group0(p,
                        IF reply_message(reply) THEN context_user_data(p)
                        ELSE on_unknown_body(context_user_data(p)),
                        None, reply_message(reply), apology, store, 0, 0, reply)

\* mortuary_start: the offer to show memes.
mortuary_start(p) ==
    /\ pc[p] = "group0" /\ callback_of(p) = "mortuary_start"
    /\ reply_only(p, "MORTUARY_CHOOSE_ACTION")

\* Variant of the filter that keeps the whole catalogue.
unseen_memes_unfiltered(seen) == MemeIds

\* Ids of the catalogue the list does not hold.
unseen_memes(seen) == {m \in MemeIds : \A i \in 1..Len(seen) : seen[i] # m}

\* mortuary_show_meme from its reply on: when the reply went through, the
\* chosen meme is appended to seen_memes.
show_meme_body(ud, meme) ==
    Put(ud, "seen_memes", Append(Get(ud, "seen_memes", << >>), meme))

\* mortuary_show_meme on scratch `ud`: random.choice among the unseen memes,
\* or the final message when none is left.
show_meme(p, ud) ==
    LET unseen == unseen_memes(Get(ud, "seen_memes", << >>))
    IN  \E reply \in ReplyOutcomes : \E apology \in apologies(reply_message(reply)) :
            IF unseen = {} \/ reply_message(reply)
            THEN finish_group0(p, ud, "MORTUARY_CHOOSE_ACTION", reply_message(reply),
                               apology, store, 0, 0, reply)
            ELSE \E meme \in unseen :
                    finish_group0(p, show_meme_body(ud, meme),
                                  "MORTUARY_CHOOSE_ACTION", FALSE, apology,
                                  store, 0, 0, reply)

mortuary_show_meme(p) ==
    /\ pc[p] = "group0" /\ callback_of(p) = "mortuary_show_meme"
    /\ show_meme(p, context_user_data(p))

\* mortuary_start_over: the list is emptied, then a meme is shown.
mortuary_start_over(p) ==
    /\ pc[p] = "group0" /\ callback_of(p) = "mortuary_start_over"
    /\ show_meme(p, Put(context_user_data(p), "seen_memes", << >>))

\* mortuary_stop: back to the top-level menu, the conversation ends.
mortuary_stop(p) ==
    /\ pc[p] = "group0" /\ callback_of(p) = "mortuary_stop"
    /\ reply_only(p, END)

principles_start(p) ==
    /\ pc[p] = "group0" /\ callback_of(p) = "principles_start"
    /\ reply_only(p, "PRINCIPLES_CHOOSE_ACTION")

principles_page(p) ==
    /\ pc[p] = "group0" /\ callback_of(p) = "principles_page"
    /\ reply_only(p, "PRINCIPLES_CHOOSE_ACTION")

principles_stop(p) ==
    /\ pc[p] = "group0" /\ callback_of(p) = "principles_stop"
    /\ reply_only(p, END)

\* post_channel_start: the footers are stored in the scratch, then the
\* request for a message is sent.
post_channel_start_body(ud) ==
    Put(Put(Put(ud, "post_channel_public_footer", "mention"),
            "post_channel_private_footer", "anonymous"),
        "post_channel_footer_max_length", "length")

post_channel_start(p) ==
    /\ pc[p] = "group0" /\ callback_of(p) = "post_channel_start"
    /\ \E reply \in ReplyOutcomes : \E apology \in apologies(reply_message(reply)) :
          finish_group0(p, post_channel_start_body(context_user_data(p)),
                        "POST_CHANNEL_GET_MESSAGE", reply_message(reply), apology,
                        store, 0, 0, reply)

\* Message type post_channel_message stores for the event.
message_type(event) ==
    CASE event = "text" -> "TEXT"
      [] event = "animation" -> "ANIMATION"
      [] event = "audio" -> "AUDIO"
      [] event = "document" -> "DOCUMENT"
      [] event \in {"photo", "photo_simsalabim"} -> "PHOTO"
      [] event = "video" -> "VIDEO"

\* post_channel_message for a message of accepted length: the message, its
\* type and, for media, its file id are stored.
post_channel_message_body(ud, event) ==
    LET typed == Put(Put(ud, "post_channel_message", "message"),
                     "post_channel_message_type", message_type(event))
    IN  IF event = "text" THEN typed
        ELSE Put(typed, "post_channel_file_id", "file")

\* post_channeltoo_long after its reply: the message keys are removed.
post_channeltoo_long_body(ud) ==
    PopAll(ud, {"post_channel_message", "post_channel_message_type",
                "post_channel_file_id", "post_channel_full_message"})

\* post_channel_message: reading the footer length raises KeyError when the
\* scratch has none; a message that is too long asks for another one; any
\* other is stored before the question about privacy is sent.
post_channel_message(p) ==
    /\ pc[p] = "group0" /\ callback_of(p) = "post_channel_message"
    /\ LET ud == context_user_data(p) IN
       \E too_long \in BOOLEAN : \E reply \in ReplyOutcomes :
       \E apology \in apologies("post_channel_footer_max_length" \notin DOMAIN ud
                                 \/ reply_message(reply)) :
          IF "post_channel_footer_max_length" \notin DOMAIN ud
          THEN finish_group0(p, ud, None, TRUE, apology, store, 0, 0, "none")
          ELSE IF too_long
          THEN finish_group0(p,
                             IF reply_message(reply) THEN ud
                             ELSE post_channeltoo_long_body(ud),
                             "POST_CHANNEL_GET_MESSAGE", reply_message(reply),
                             apology, store, 0, 0, reply)
          ELSE finish_group0(p, post_channel_message_body(ud, update[p].event),
                             "POST_CHANNEL_GET_PRIVACY", reply_message(reply),
                             apology, store, 0, 0, reply)

\* post_channel_stop: the top-level menu, then the draft keys are removed
\* and the conversation ends.
post_channel_stop(p) ==
    /\ pc[p] = "group0" /\ callback_of(p) = "post_channel_stop"
    /\ \E reply \in ReplyOutcomes : \E apology \in apologies(reply_message(reply)) :
          finish_group0(p,
                        IF reply_message(reply) THEN context_user_data(p)
                        ELSE PopAll(context_user_data(p), PostChannelKeys),
                        END, reply_message(reply), apology, store, 0, 0, reply)

\* Variant of meetings_start that returns the token of the memes
\* conversation to a participant.
meetings_start_state_of_mortuary(ud) ==
    IF Get(ud, "in_meetings", FALSE) = TRUE
    THEN "MORTUARY_CHOOSE_ACTION"
    ELSE "MEETINGS_GET_NAME"

\* The token meetings_start returns: the menu state for a participant, the
\* request for a name otherwise.
meetings_start_state(ud) ==
    IF Get(ud, "in_meetings", FALSE) = TRUE
    THEN "MEETINGS_CHOOSE_ACTION"
    ELSE "MEETINGS_GET_NAME"

\* meetings_start: the menu of a participant, or the request for a name.
meetings_start(p) ==
    /\ pc[p] = "group0" /\ callback_of(p) = "meetings_start"
    /\ reply_only(p, meetings_start_state(context_user_data(p)))

\* meetings_stop: back to the top-level menu, the conversation ends.
meetings_stop(p) ==
    /\ pc[p] = "group0" /\ callback_of(p) = "meetings_stop"
    /\ reply_only(p, END)

\* on_unknown called from inside a callback, whose result (None) the
\* callback returns: the reply, then the draft keys go and UNKNOWN is set.
unknown_inside(p, ud, reply, apology) ==
    finish_group0(p,
                  IF reply_message(reply) THEN ud ELSE on_unknown_body(ud),
                  None, reply_message(reply), apology, store, 0, 0, reply)

\* post_channel_privacy: the full message is stored, the draft is shown by
\* its type (on_unknown for a type it does not know), then the
\* confirmation is asked.
post_channel_privacy(p) ==
    /\ pc[p] = "group0" /\ callback_of(p) = "post_channel_privacy"
    /\ LET ud == Put(context_user_data(p), "post_channel_full_message", "full") IN
       \E reply \in ReplyOutcomes : \E apology \in apologies(reply_message(reply)) :
          IF "post_channel_message_type" \notin DOMAIN ud
          THEN unknown_inside(p, ud, reply, apology)
          ELSE finish_group0(p, ud, "POST_CHANNEL_GET_SENDING_CONFIRMATION",
                             reply_message(reply), apology, store, 0, 0, reply)

\* post_channel_confirm_sending: context.bot.send_* to the channel, which
\* is not wrapped (any error of it raises), then the top-level menu, then
\* the draft keys are removed and the conversation ends.
post_channel_confirm_sending(p) ==
    /\ pc[p] = "group0" /\ callback_of(p) = "post_channel_confirm_sending"
    /\ LET ud == context_user_data(p) IN
       \E sent \in BOOLEAN : \E reply \in ReplyOutcomes :
       \E apology \in apologies(~ sent \/ reply_message(reply)) :
          IF "post_channel_message_type" \notin DOMAIN ud
          THEN /\ sent
               /\ unknown_inside(p, ud, reply, apology)
          ELSE IF ~ sent
          THEN finish_group0(p, ud, None, TRUE, apology, store, 0, 0, "none")
          ELSE finish_group0(p,
                             IF reply_message(reply) THEN ud
                             ELSE PopAll(ud, PostChannelKeys),
                             END, reply_message(reply), apology, store, 0, 0, reply)

\* meetings_name: a name that is too long is asked again
\* (meetings_name_too_long); any other is stored with its link before the
\* request for a photo is sent.
meetings_name(p) ==
    /\ pc[p] = "group0" /\ callback_of(p) = "meetings_name"
    /\ LET ud == context_user_data(p) IN
       \E too_long \in BOOLEAN : \E reply \in ReplyOutcomes :
       \E apology \in apologies(reply_message(reply)) :
          IF too_long
          THEN finish_group0(p, ud, "MEETINGS_GET_NAME", reply_message(reply),
                             apology, store, 0, 0, reply)
          ELSE finish_group0(p,
                             Put(Put(ud, "meetings_name", "name"),
                                 "meetings_link", "link"),
                             "MEETINGS_GET_PHOTO", reply_message(reply),
                             apology, store, 0, 0, reply)

\* meetings_photo: the type and the file of the photo or the video are
\* stored before the request for a bio is sent.
meetings_photo(p) ==
    /\ pc[p] = "group0" /\ callback_of(p) = "meetings_photo"
    /\ \E reply \in ReplyOutcomes : \E apology \in apologies(reply_message(reply)) :
          finish_group0(p,
                        Put(Put(context_user_data(p), "meetings_file_type",
                                message_type(update[p].event)),
                            "meetings_file_id", "file"),
                        "MEETINGS_GET_BIO", reply_message(reply),
                        apology, store, 0, 0, reply)

\* show_user_profile raises ValueError, after on_unknown, for a scratch
\* without a PHOTO or VIDEO file.
show_user_profile(ud) == Get(ud, "meetings_file_type", None) \in {"PHOTO", "VIDEO"}

\* A callback that shows the profile of the user between its replies and
\* returns `new_state`; `ud` is the scratch it has built before.
profile_reply(p, ud, new_state) ==
    \E reply \in ReplyOutcomes :
    \E apology \in apologies(~ show_user_profile(ud) \/ reply_message(reply)) :
        IF reply_message(reply)
        THEN finish_group0(p, ud, new_state, TRUE, apology, store, 0, 0, reply)
        ELSE IF ~ show_user_profile(ud)
        THEN finish_group0(p, on_unknown_body(ud), new_state, TRUE, apology,
                           store, 0, 0, reply)
        ELSE finish_group0(p, ud, new_state, FALSE, apology, store, 0, 0, reply)

\* meetings_bio: on_unknown for a scratch without a name; a bio that is too
\* long is asked again (meetings_bio_too_long); any other is stored with
\* the caption, the profile is shown and the confirmation is asked.
meetings_bio(p) ==
    /\ pc[p] = "group0" /\ callback_of(p) = "meetings_bio"
    /\ LET ud == context_user_data(p) IN
       IF "meetings_name" \notin DOMAIN ud
       THEN \E reply \in ReplyOutcomes : \E apology \in apologies(reply_message(reply)) :
               unknown_inside(p, ud, reply, apology)
       ELSE \E too_long \in BOOLEAN :
               IF too_long
               THEN reply_only(p, "MEETINGS_GET_BIO")
               ELSE profile_reply(p,
                                  Put(Put(ud, "meetings_bio", "bio"),
                                      "meetings_caption", "caption"),
                                  "MEETINGS_GET_PARTICIPATION_CONFIRMATION")

\* YDBClient.update_user_meetings: the UPDATE of the meetings timestamp of
\* the user's row, NULL for a timestamp that is false.
update_user_meetings(table, user, meetings_ts) ==
    IF ~ table[user].exists THEN table
    ELSE [table EXCEPT ![user].meetings_ts = meetings_ts]

\* meetings_confirm_participation: in_meetings and the timestamp are put in
\* the scratch, the timestamp is written to the row, then meetings_start
\* shows the menu of a participant.
meetings_confirm_participation(p) ==
    /\ pc[p] = "group0" /\ callback_of(p) = "meetings_confirm_participation"
    /\ LET ud == Put(Put(context_user_data(p), "in_meetings", TRUE),
                     "meetings_ts", "ts") IN
       \E query \in QueryOutcomes : \E reply \in ReplyOutcomes :
       \E apology \in apologies(query = "fail" \/ reply_message(reply)) :
          IF query = "fail"
          THEN finish_group0(p, ud, None, TRUE, apology, store, 0, 1, "none")
          ELSE finish_group0(p, ud, meetings_start_state(ud), reply_message(reply),
                             apology,
                             update_user_meetings(store, update[p].user, << "ts" >>),
                             0, 1, reply)

\* meetings_show_people: get_meetings_profile reads the profile of another
\* participant; without one (or with one that has no photo or video) the
\* top-level menu is shown and the conversation ends, otherwise its
\* timestamp is kept in the scratch and the profile is shown.
show_people(p, ud) ==
    \E query \in QueryOutcomes : \E found \in BOOLEAN : \E reply \in ReplyOutcomes :
    \E apology \in apologies(query = "fail" \/ reply_message(reply)) :
        IF query = "fail"
        THEN finish_group0(p, ud, None, TRUE, apology, store, 1, 0, "none")
        ELSE IF ~ found
        THEN finish_group0(p, ud, END, reply_message(reply), apology,
                           store, 1, 0, reply)
        ELSE finish_group0(p, Put(ud, "current_meetings_ts", "ts"),
                           "MEETINGS_CHOOSE_PERSON_ACTION", reply_message(reply),
                           apology, store, 1, 0, reply)

meetings_show_people(p) ==
    /\ pc[p] = "group0" /\ callback_of(p) = "meetings_show_people"
    /\ show_people(p, context_user_data(p))

\* meetings_show_people_left and _right read current_meetings_ts with a
\* subscript: KeyError for a scratch without it.
show_people_from(p) ==
    IF "current_meetings_ts" \notin DOMAIN context_user_data(p)
    THEN \E apology \in ApologyOutcomes :
            finish_group0(p, context_user_data(p), None, TRUE, apology,
                          store, 0, 0, "none")
    ELSE show_people(p, context_user_data(p))

meetings_show_people_left(p) ==
    /\ pc[p] = "group0" /\ callback_of(p) = "meetings_show_people_left"
    /\ show_people_from(p)

meetings_show_people_right(p) ==
    /\ pc[p] = "group0" /\ callback_of(p) = "meetings_show_people_right"
    /\ show_people_from(p)

\* meetings_like: upsert_like_meetings writes the like; the answer to the
\* callback query is wrapped in try/except.
meetings_like(p) ==
    /\ pc[p] = "group0" /\ callback_of(p) = "meetings_like"
    /\ \E query \in QueryOutcomes : \E apology \in apologies(query = "fail") :
          finish_group0(p, context_user_data(p), "MEETINGS_CHOOSE_PERSON_ACTION",
                        query = "fail", apology, store, 0, 1, "none")

\* meetings_show_likes: get_like_meetings reads the likes, the top-level
\* menu lists them and the conversation ends.
meetings_show_likes(p) ==
    /\ pc[p] = "group0" /\ callback_of(p) = "meetings_show_likes"
    /\ \E query \in QueryOutcomes : \E reply \in ReplyOutcomes :
       \E apology \in apologies(query = "fail" \/ reply_message(reply)) :
          IF query = "fail"
          THEN finish_group0(p, context_user_data(p), None, TRUE, apology,
                             store, 1, 0, "none")
          ELSE finish_group0(p, context_user_data(p), END, reply_message(reply),
                             apology, store, 1, 0, reply)

\* meetings_change: the profile is shown and the confirmation is asked.
meetings_change(p) ==
    /\ pc[p] = "group0" /\ callback_of(p) = "meetings_change"
    /\ profile_reply(p, context_user_data(p), "MEETINGS_GET_CHANGE_CONFIRMATION")

\* meetings_confirm_change: the name is asked once again.
meetings_confirm_change(p) ==
    /\ pc[p] = "group0" /\ callback_of(p) = "meetings_confirm_change"
    /\ reply_only(p, "MEETINGS_GET_NAME")

\* meetings_remove: the confirmation of the removal is asked.
meetings_remove(p) ==
    /\ pc[p] = "group0" /\ callback_of(p) = "meetings_remove"
    /\ reply_only(p, "MEETINGS_GET_REMOVAL_CONFIRMATION")

\* Keys of the meetings profile, removed by meetings_confirm_removal.
MeetingsProfileKeys == {"meetings_name", "meetings_link", "meetings_file_type",
                        "meetings_file_id", "meetings_bio", "meetings_caption",
                        "meetings_ts"}

\* meetings_confirm_removal: in_meetings is set to False, the timestamp of
\* the row is set to NULL, the top-level menu is shown, then the profile
\* keys are removed and the conversation ends.
meetings_confirm_removal(p) ==
    /\ pc[p] = "group0" /\ callback_of(p) = "meetings_confirm_removal"
    /\ LET ud == Put(context_user_data(p), "in_meetings", FALSE) IN
       \E query \in QueryOutcomes : \E reply \in ReplyOutcomes :
       \E apology \in apologies(query = "fail" \/ reply_message(reply)) :
          IF query = "fail"
          THEN finish_group0(p, ud, None, TRUE, apology, store, 0, 1, "none")
          ELSE finish_group0(p,
                             IF reply_message(reply) THEN ud
                             ELSE PopAll(ud, MeetingsProfileKeys),
                             END, reply_message(reply), apology,
                             update_user_meetings(store, update[p].user, << >>),
                             0, 1, reply)

\* The callbacks that end a conversation with the top-level menu: each
\* calls on_top first and returns END.
TopMenuStops == {"post_channel_stop", "meetings_stop", "mortuary_stop",
                 "principles_stop"}

----------------------------------------------------------------------------
(* Group 1 and the end of Dispatcher.process_update *)

\* YDBClient.update_usage: an UPDATE of the usage column of the user's row.
update_usage(table, user) ==
    IF table[user].exists
    THEN [table EXCEPT ![user].usage = IF @ < MaxUsage THEN @ + 1 ELSE @]
    ELSE table

\* Dispatcher.update_persistence: the persistence takes a copy of the
\* user's scratch as the dispatcher holds it.
update_persistence(pud, user, ud) == Put(pud, user, ud)

\* on_every (group 1) runs for every Update, also after a fault in group 0;
\* then process_update pushes the scratch to the persistence.
on_every(p) ==
    /\ pc[p] = "group1"
    /\ \E query \in QueryOutcomes : \E apology \in apologies(query = "fail") :
          LET user == update[p].user
              ud == IF query = "fail"
                    THEN on_error(context_user_data(p), apology)
                    ELSE context_user_data(p)
          IN  /\ store' = IF query = "ok" THEN update_usage(store, user) ELSE store
              /\ d_user_data' = [d_user_data EXCEPT ![p] = Put(@, user, ud)]
              /\ p_user_data' = [p_user_data EXCEPT ![p] =
                                    update_persistence(@, user, ud)]
              /\ inv' = [inv EXCEPT ![p].ran = Append(@, "on_every"),
                                    ![p].raised = @ \/ query = "fail",
                                    ![p].writes = @ + 1]
    /\ pc' = [pc EXCEPT ![p] = "tail"]
    /\ UNCHANGED << p_conversations, h_conversations, update, registration >>

----------------------------------------------------------------------------
(* The tail of index.process_update *)

OverrideFlags == {"UNKNOWN", "ERROR"}

\* The two pops of process_update: the scratch without the override flags.
strip_flags(ud) == PopAll(ud, OverrideFlags)

\* Variant of the tail without the second dispatcher.update_persistence: the
\* persistence keeps the copy it took before the flags were popped.
resync_persistence_skipped(pud, user, ud, flagged) == pud

\* dispatcher.update_persistence(update) after the pops, done only when a
\* flag was set: the persistence takes the stripped scratch.
resync_persistence(pud, user, ud, flagged) ==
    IF flagged THEN update_persistence(pud, user, strip_flags(ud)) ELSE pud

\* PersistentDispatcher.end_conversations on the handlers' tables.
end_conversations_handlers(hconv, user) ==
    [n \in ConvNames |-> update_state_handler(hconv[n], user, END)]

\* Variant of end_conversations whose reset reaches the persistence only
\* after the document was serialized.
end_conversations_persistence_after_dump(pconv, hconv, user) == pconv

\* PersistentDispatcher.end_conversations on the persistence.
end_conversations_persistence(pconv, hconv, user) ==
    [n \in ConvNames |-> update_state_persistence(pconv[n], hconv[n], user, END)]

\* Variant of the tail that also saves inside the branch on the flags.
saves_of_tail_in_branch(unknown, error) ==
    IF unknown \/ error THEN 2 ELSE 1

\* Calls of update_persistence_database in the tail: one, placed after the
\* branches on the flags.
saves_of_tail(unknown, error) == 1

\* Variant of the save that swallows the failure of its query.
update_persistence_database_swallowing(query) == "none"

\* dispatcher.update_persistence_database as process_update calls it: the
\* exception of execute_query is neither caught here nor in process_update.
update_persistence_database(query) ==
    IF query = "fail" THEN "StoreError" ELSE "none"

\* index.process_update after dispatcher.process_update: the flags are
\* popped, the persistence is resynchronised, an unknown update ends every
\* conversation, and update_persistence_database issues the one save.
\* `query` is the outcome of the save's query after the retries of
\* retry_operation_sync; when it failed the effect of the UPDATE is unknown
\* (`applied`), and OK_RESPONSE is returned only when nothing was raised.
process_update_end(p, query, applied) ==
    /\ pc[p] = "tail"
    /\ LET user == update[p].user
           ud == context_user_data(p)
           unknown == Get(ud, "UNKNOWN", FALSE)
           error == Get(ud, "ERROR", FALSE)
           pud == resync_persistence(p_user_data[p], user, ud, unknown \/ error)
           hconv == IF unknown
                    THEN end_conversations_handlers(h_conversations[p], user)
                    ELSE h_conversations[p]
           pconv == IF unknown
                    THEN end_conversations_persistence(p_conversations[p],
                                                       h_conversations[p], user)
                    ELSE p_conversations[p]
       IN  /\ d_user_data' = [d_user_data EXCEPT ![p] =
                                 IF user \in DOMAIN @
                                 THEN Put(@, user, strip_flags(ud)) ELSE @]
           /\ p_user_data' = [p_user_data EXCEPT ![p] = pud]
           /\ h_conversations' = [h_conversations EXCEPT ![p] = hconv]
           /\ p_conversations' = [p_conversations EXCEPT ![p] = pconv]
           /\ store' = IF applied
                       THEN update_database(store, pud, pconv, user, error)
                       ELSE store
           /\ inv' = [inv EXCEPT ![p].unknown = unknown,
                                 ![p].error = error,
                                 ![p].saved = << saved_cell(pud, pconv, user, error) >>,
                                 ![p].texts = Append(@,
                                    update_database_query(user, error,
                                        saved_cell(pud, pconv, user, error)).text),
                                 ![p].parameters = Append(@,
                                    update_database_query(user, error,
                                        saved_cell(pud, pconv, user, error)).parameters),
                                 ![p].saves = @ + saves_of_tail(unknown, error),
                                 ![p].save_query = query,
                                 ![p].aborted = update_persistence_database(query),
                                 ![p].done = (update_persistence_database(query) = "none")]
    /\ pc' = [pc EXCEPT ![p] = "idle"]
    /\ UNCHANGED << update, registration >>

\* The tail when the query of the save succeeds.
process_update_tail(p) == process_update_end(p, "ok", TRUE)

\* The tail when the query of the save fails after its retries.
save_raises(p) == \E applied \in BOOLEAN : process_update_end(p, "fail", applied)

----------------------------------------------------------------------------
(* Specifications *)

\* Events of the core specification: one representative of every matcher
\* of the stateless handlers, the memes and principles conversations, and a
\* text message, which no handler but the catch-all accepts here.
CoreEvents == {"/start", "/help", "/timetable", "/camps", "photo_simsalabim",
               "/memes", "MORTUARY_SHOW_MEME", "MORTUARY_START_OVER",
               "MORTUARY_STOP", "/principles", "PRINCIPLES_PAGE",
               "PRINCIPLES_STOP", "text"}

\* One warm process serving one user, recycled at any time between events.
Next ==
    \/ \E e \in CoreEvents : load_persistence_data("p1", "u1", e)
    \/ cold_start("p1")
    \/ on_start("p1")
    \/ on_help("p1")
    \/ menu_reply("p1")
    \/ timetable_start("p1")
    \/ on_media("p1")
    \/ mortuary_start("p1")
    \/ mortuary_show_meme("p1")
    \/ mortuary_start_over("p1")
    \/ mortuary_stop("p1")
    \/ principles_start("p1")
    \/ principles_page("p1")
    \/ principles_stop("p1")
    \/ on_unknown("p1")
    \/ on_every("p1")
    \/ process_update_tail("p1")

Spec == Init /\ [][Next]_vars

\* Events of the two-instance specification.
TwoEvents == {"/start", "/memes", "MORTUARY_SHOW_MEME", "/principles"}

\* The platform keeps several warm instances of the function and hands an
\* event to any of them; the events of the user are delivered one at a time.
serial_load(p, user, event) ==
    /\ \A q \in Procs : pc[q] = "idle"
    /\ load_persistence_data(p, user, event)

NextTwo ==
    \E p \in Procs :
        \/ \E e \in TwoEvents : serial_load(p, "u1", e)
        \/ on_start(p)
        \/ mortuary_start(p)
        \/ mortuary_show_meme(p)
        \/ principles_start(p)
        \/ on_unknown(p)
        \/ on_every(p)
        \/ process_update_tail(p)

\* The user of the two-instance specification has a row.
InitTwo == InitWith({"u1"}) /\ store["u1"] = NewRow

SpecTwo == InitTwo /\ [][NextTwo]_vars

\* The union of two dicts with disjoint keys.
Merge(d1, d2) ==
    [k \in DOMAIN d1 \cup DOMAIN d2 |-> IF k \in DOMAIN d1 THEN d1[k] ELSE d2[k]]

\* The scratch the post-to-channel conversation has built on reaching a
\* state: the footers of post_channel_start, the message of
\* post_channel_message, the full message of post_channel_privacy.
post_channel_scratch(state) ==
    LET footers == post_channel_start_body(EmptyDict)
        message == post_channel_message_body(footers, "text")
    IN  CASE state = None -> EmptyDict
          [] state = "POST_CHANNEL_GET_MESSAGE" -> footers
          [] state = "POST_CHANNEL_GET_PRIVACY" -> message
          [] state = "POST_CHANNEL_GET_SENDING_CONFIRMATION" ->
                Put(message, "post_channel_full_message", "full")

\* The scratch the meetings conversation has built on reaching a state:
\* name and link (meetings_name), file (meetings_photo), bio and caption
\* (meetings_bio), in_meetings and meetings_ts
\* (meetings_confirm_participation), current_meetings_ts
\* (meetings_show_people).
meetings_scratch(state) ==
    LET named == [meetings_name |-> "name", meetings_link |-> "link"]
        filed == Merge(named, [meetings_file_type |-> "PHOTO",
                               meetings_file_id |-> "file"])
        told == Merge(filed, [meetings_bio |-> "bio",
                              meetings_caption |-> "caption"])
        joined == Merge(told, [in_meetings |-> TRUE, meetings_ts |-> "ts"])
    IN  CASE state \in {None, "MEETINGS_GET_NAME"} -> EmptyDict
          [] state = "MEETINGS_GET_PHOTO" -> named
          [] state = "MEETINGS_GET_BIO" -> filed
          [] state = "MEETINGS_GET_PARTICIPATION_CONFIRMATION" -> told
          [] state = "MEETINGS_CHOOSE_PERSON_ACTION" ->
                Put(joined, "current_meetings_ts", "ts")
          [] OTHER -> joined

\* The states a conversation can be recorded in, None included.
StatesOf(name) == DOMAIN conv_states(name) \cup {None}

\* The row of a user whose conversations were left in the given states by
\* earlier invocations: the document as _dump_into_json writes it and the
\* meetings timestamp as update_user_meetings left it.
RowWith(states) ==
    LET scratch == Merge(post_channel_scratch(states["post_channel_conv"]),
                         meetings_scratch(states["meetings_conv"]))
        names == {n \in ConvNames : states[n] # None}
        doc == IF names = {} THEN [user_data |-> scratch]
               ELSE [user_data |-> scratch,
                     conversations |-> [n \in names |-> states[n]]]
    IN  [NewRow EXCEPT !.persistence_data = << doc >>,
                       !.meetings_ts = IF "meetings_ts" \in DOMAIN scratch
                                       THEN << scratch["meetings_ts"] >>
                                       ELSE << >>]

\* Every combination of states of the four conversations.
MatchStates ==
    {states \in [ConvNames -> UNION {StatesOf(n) : n \in ConvNames}] :
        \A n \in ConvNames : states[n] \in StatesOf(n)}

\* The tables in which user u1 has a row left by earlier invocations.
MatchStores ==
    {[u \in Users |-> IF u = "u1" THEN RowWith(states) ELSE AbsentRow] :
        states \in MatchStates}

\* A fresh instance and a user whose conversations are in any states.
InitMatch ==
    /\ store \in MatchStores
    /\ p_user_data = [p \in Procs |-> EmptyDict]
    /\ p_conversations = [p \in Procs |-> NoConversations]
    /\ d_user_data = [p \in Procs |-> EmptyDict]
    /\ h_conversations = [p \in Procs |-> NoConversations]
    /\ pc = [p \in Procs |-> "idle"]
    /\ update = [p \in Procs |-> NoUpdate]
    /\ inv = [p \in Procs |-> NewInvocation]
    /\ registration = [p \in Procs |-> Registered]

\* Events of the matching specification: the entry and fallback events of
\* the conversations, a text message, a captioned photo and a command.
MatchEvents == {"/publish", "POST_CHANNEL_STOP", "/meetings", "MEETINGS_STOP",
                "/memes", "MORTUARY_STOP", "/principles", "PRINCIPLES_STOP",
                "text", "photo_simsalabim", "/help"}

\* The callbacks the matching specification has actions for.
MatchCallbacks == {"post_channel_start", "post_channel_message",
                   "post_channel_stop", "meetings_start", "meetings_stop",
                   "mortuary_start",
                   "mortuary_stop", "principles_start", "principles_stop",
                   "on_help", "on_media", "on_unknown"}

\* One event is delivered to the fresh instance; the callback it selects
\* after the load is one of MatchCallbacks.
match_load(p, user, event) ==
    /\ ~ inv[p].done /\ inv[p].aborted = "none"
    /\ selected_callback(
           update_data_conversations(p_conversations[p], user, get_data(user)),
           user, event) \in MatchCallbacks
    /\ load_persistence_data(p, user, event)

NextMatch ==
    \/ \E e \in MatchEvents : match_load("p1", "u1", e)
    \/ post_channel_start("p1")
    \/ post_channel_message("p1")
    \/ post_channel_stop("p1")
    \/ meetings_start("p1")
    \/ meetings_stop("p1")
    \/ mortuary_start("p1")
    \/ mortuary_stop("p1")
    \/ principles_start("p1")
    \/ principles_stop("p1")
    \/ on_help("p1")
    \/ on_media("p1")
    \/ on_unknown("p1")
    \/ on_every("p1")
    \/ process_update_tail("p1")

SpecMatch == InitMatch /\ [][NextMatch]_vars

\* Events of the step specification: an event for every matcher of every
\* conversation, a text, a photo, a captioned photo and a command.
StepEvents ==
    MatchEvents \cup
    {"photo", "POST_CHANNEL_PUBLIC", "POST_CHANNEL_CONFIRM_SENDING",
     "MEETINGS_CONFIRM_PARTICIPATION", "MEETINGS_SHOW_PEOPLE",
     "MEETINGS_SHOW_LIKES", "MEETINGS_CHANGE", "MEETINGS_REMOVE",
     "MEETINGS_SHOW_PEOPLE_LEFT", "MEETINGS_LIKE", "MEETINGS_SHOW_PEOPLE_RIGHT",
     "MEETINGS_CONFIRM_CHANGE", "MEETINGS_CONFIRM_REMOVAL",
     "MORTUARY_SHOW_MEME", "MORTUARY_START_OVER", "PRINCIPLES_PAGE"}

\* One event is delivered to the fresh instance.
step_load(p, user, event) ==
    /\ ~ inv[p].done /\ inv[p].aborted = "none"
    /\ load_persistence_data(p, user, event)

\* Every callback of the four conversations, for a user whose
\* conversations are in any states.
NextStep ==
    \/ \E e \in StepEvents : step_load("p1", "u1", e)
    \/ post_channel_start("p1")
    \/ post_channel_message("p1")
    \/ post_channel_privacy("p1")
    \/ post_channel_confirm_sending("p1")
    \/ post_channel_stop("p1")
    \/ meetings_start("p1")
    \/ meetings_name("p1")
    \/ meetings_photo("p1")
    \/ meetings_bio("p1")
    \/ meetings_confirm_participation("p1")
    \/ meetings_show_people("p1")
    \/ meetings_show_people_left("p1")
    \/ meetings_show_people_right("p1")
    \/ meetings_like("p1")
    \/ meetings_show_likes("p1")
    \/ meetings_change("p1")
    \/ meetings_confirm_change("p1")
    \/ meetings_remove("p1")
    \/ meetings_confirm_removal("p1")
    \/ meetings_stop("p1")
    \/ mortuary_start("p1")
    \/ mortuary_show_meme("p1")
    \/ mortuary_start_over("p1")
    \/ mortuary_stop("p1")
    \/ principles_start("p1")
    \/ principles_page("p1")
    \/ principles_stop("p1")
    \/ on_help("p1")
    \/ on_media("p1")
    \/ on_unknown("p1")
    \/ on_every("p1")
    \/ process_update_tail("p1")

SpecStep == InitMatch /\ [][NextStep]_vars

\* Variant of PersistentDispatcher.add_handler without the last check.
add_handler_unchecked_persistent(flags) ==
    IF ~ flags.per_user THEN "requires per_user=True"
    ELSE IF flags.per_chat THEN "requires per_chat=False"
    ELSE IF flags.per_message THEN "requires per_message=False"
    ELSE "none"

\* PersistentDispatcher.add_handler for a ConversationHandler: the message
\* of the ValueError it raises, "none" when the handler is accepted.
add_handler(flags) ==
    IF ~ flags.per_user THEN "requires per_user=True"
    ELSE IF flags.per_chat THEN "requires per_chat=False"
    ELSE IF flags.per_message THEN "requires per_message=False"
    ELSE IF ~ flags.persistent THEN "is not persistent"
    ELSE "none"

\* add_handlers run over the handlers in registration order: the error of
\* the first ConversationHandler that is refused, "none" when all are added.
add_handlers_error(flags) ==
    LET refused == {i \in 1..Len(Group0) :
                      /\ Group0[i].conv # ""
                      /\ add_handler(flags[Group0[i].conv]) # "none"}
    IN  IF refused = {} THEN "none"
        ELSE add_handler(flags[Group0[SetMin(refused)].conv])

\* PersistentDispatcher.add_handler on dispatcher.handlers[0]: the call of
\* super().add_handler, which appends the handler, comes before the checks.
add_handler_table(table, i) == Append(table, i)

\* add_handlers on dispatcher.handlers[0], from the i-th handler of group 0
\* on: the walk ends at the first ConversationHandler that is refused.
RECURSIVE add_handlers_table(_, _, _)
add_handlers_table(flags, i, table) ==
    IF i > Len(Group0) THEN table
    ELSE IF Group0[i].conv # "" /\ add_handler(flags[Group0[i].conv]) # "none"
    THEN add_handler_table(table, i)
    ELSE add_handlers_table(flags, i + 1, add_handler_table(table, i))

\* The import of index.py: add_handlers(dispatcher) registers the handlers.
\* A ValueError of add_handler ends the import, the instance never defines
\* process_update.
add_handlers(p) ==
    /\ pc[p] = "import"
    /\ LET error == add_handlers_error(registration[p].flags)
       IN  /\ registration' =
                 [registration EXCEPT
                     ![p].error = error,
                     ![p].handlers =
                         add_handlers_table(registration[p].flags, 1, << >>)]
           /\ pc' = [pc EXCEPT ![p] = IF error = "none" THEN "idle" ELSE "failed"]
    /\ UNCHANGED << store, p_user_data, p_conversations, d_user_data,
                    h_conversations, update, inv >>

AllFlags == {Flags(a, b, c, d) : a \in BOOLEAN, b \in BOOLEAN,
                                 c \in BOOLEAN, d \in BOOLEAN}

\* Programs that differ from add_handlers in the settings of at most one
\* ConversationHandler.
FlagDraws ==
    {[m \in ConvNames |-> IF m = n THEN f ELSE conv_flags(m)] :
        n \in ConvNames, f \in AllFlags}

\* An instance about to import index.py, for each such program, and a
\* user whose conversations are in any states.
InitRegister ==
    /\ store \in MatchStores
    /\ p_user_data = [p \in Procs |-> EmptyDict]
    /\ p_conversations = [p \in Procs |-> NoConversations]
    /\ d_user_data = [p \in Procs |-> EmptyDict]
    /\ h_conversations = [p \in Procs |-> NoConversations]
    /\ pc = [p \in Procs |-> IF p = "p1" THEN "import" ELSE "idle"]
    /\ update = [p \in Procs |-> NoUpdate]
    /\ inv = [p \in Procs |-> NewInvocation]
    /\ \E f \in FlagDraws :
          registration = [p \in Procs |->
                            IF p = "p1"
                            THEN [flags |-> f, error |-> "none",
                                  handlers |-> << >>]
                            ELSE Registered]

NextRegister == add_handlers("p1") \/ NextMatch

\* The tables of MatchStores, the same with a second row for the user, the
\* table with a row that holds no document and the table without a row.
StoreDraws ==
    MatchStores
    \cup {[t EXCEPT !["u1"].duplicated = TRUE] : t \in MatchStores}
    \cup {[u \in Users |-> IF u = "u1" THEN NewRow ELSE AbsentRow],
          [u \in Users |-> AbsentRow]}

InitStore ==
    /\ store \in StoreDraws
    /\ p_user_data = [p \in Procs |-> EmptyDict]
    /\ p_conversations = [p \in Procs |-> NoConversations]
    /\ d_user_data = [p \in Procs |-> EmptyDict]
    /\ h_conversations = [p \in Procs |-> NoConversations]
    /\ pc = [p \in Procs |-> "idle"]
    /\ update = [p \in Procs |-> NoUpdate]
    /\ inv = [p \in Procs |-> NewInvocation]
    /\ registration = [p \in Procs |-> Registered]

\* One event is delivered to the fresh instance; the load may raise.
store_load_raises(p, user, event) ==
    /\ ~ inv[p].done /\ inv[p].aborted = "none"
    /\ load_raises(p, user, event)

NextStore ==
    \/ \E e \in MatchEvents : store_load_raises("p1", "u1", e)
    \/ save_raises("p1")
    \/ NextMatch

SpecStore == InitStore /\ [][NextStore]_vars

SpecRegister == InitRegister /\ [][NextRegister]_vars

\* Events of the two-user specification.
UsersEvents == {"/memes", "/principles"}

\* Two instances and two users.  An instance takes an event of a user it
\* has not served yet while no other instance is handling an event of that
\* user; the second instance serves the second user only.
users_load(p, user, event) ==
    /\ user \notin DOMAIN p_user_data[p]
    /\ \A q \in Procs \ {p} : pc[q] = "idle" \/ update[q].user # user
    /\ p = "p2" => user = "u2"
    /\ load_persistence_data(p, user, event)

NextUsers ==
    \E p \in Procs :
        \/ \E u \in Users : \E e \in UsersEvents : users_load(p, u, e)
        \/ mortuary_start(p)
        \/ principles_start(p)
        \/ on_every(p)
        \/ process_update_tail(p)

\* Both users have a row.
InitUsers == InitWith(Users) /\ \A u \in Users : store[u] = NewRow

SpecUsers == InitUsers /\ [][NextUsers]_vars

\* Two fresh instances receive one event each of the same user; nothing
\* keeps the second from loading before the first has saved.
overlap_load(p, user, event) ==
    /\ user \notin DOMAIN p_user_data[p]
    /\ ~ inv[p].done
    /\ load_persistence_data(p, user, event)

NextOverlap ==
    \E p \in Procs :
        \/ \E e \in UsersEvents : overlap_load(p, "u1", e)
        \/ mortuary_start(p)
        \/ principles_start(p)
        \/ on_every(p)
        \/ process_update_tail(p)

SpecOverlap == InitTwo /\ [][NextOverlap]_vars

----------------------------------------------------------------------------
(* Vocabulary of the properties *)

\* The document of a cell, {} for NULL.
doc_of(cell) == IF cell = << >> THEN EmptyDict ELSE cell[1]

\* A section of a document, {} when the document has no such key.
section(doc, key) == Get(doc, key, EmptyDict)

\* The invocation of p has issued its save.
has_saved(p) == inv[p].saved # << >>

\* The save of p was the wipe (NULL bound to the document column).
saved_wipe(p) == has_saved(p) /\ inv[p].saved[1] = << >>

\* The save of p bound a document.
saved_document(p) == has_saved(p) /\ inv[p].saved[1] # << >>

\* The document the save of p bound.
saved_doc(p) == IF has_saved(p) THEN doc_of(inv[p].saved[1]) ELSE EmptyDict

\* The state of a conversation in the document the invocation of p loaded.
loaded_state(p, name) ==
    Get(section(doc_of(inv[p].loaded), "conversations"), name, None)

\* The events and the callbacks of a list of matchers.
events_of(matchers) == UNION {matchers[i].events : i \in 1..Len(matchers)}

callbacks_of(matchers) == {matchers[i].callback : i \in 1..Len(matchers)}

\* The handler tables of a fresh instance after the load of p's invocation.
loaded_convs(p) ==
    [n \in ConvNames |->
        IF loaded_state(p, n) = None THEN EmptyDict
        ELSE Put(EmptyDict, update[p].user, loaded_state(p, n))]

\* The callbacks of the primary group among those the invocation of p ran.
NotEvery(callback) == callback # "on_every"

primary_runs(p) == SelectSeq(inv[p].ran, NotEvery)

\* Conversations recorded as started for the user in a handler table.
started(convs, user) == {n \in ConvNames : current_state(convs, n, user) # None}

----------------------------------------------------------------------------
(* C1 *)

\* C1: a handler fault during dispatch (an exception raised by a matched
\* handler of any group) leaves the user's document column NULL after the
\* invocation: the save of a completed invocation in which a handler raised
\* is the wipe, and the stored cell is NULL.
C1_FaultLeavesDocumentNull ==
    \A p \in Procs :
        (inv[p].done /\ inv[p].raised)
            => store[update[p].user].persistence_data = << >>

----------------------------------------------------------------------------
(* C2 *)

\* C2: the working state handlers see after the load is determined by the
\* stored document alone: the scratch is the document's user_data section
\* (empty without one) and a conversation is started exactly when the
\* document has an entry for it, in the state of that entry.
C2_LoadDeterminedByDocument ==
    \A p \in Procs :
        pc[p] = "group0" =>
            LET doc == doc_of(inv[p].loaded)
                user == update[p].user
            IN  /\ context_user_data(p) = section(doc, "user_data")
                /\ \A n \in ConvNames :
                      current_state(h_conversations[p], n, user)
                          = Get(section(doc, "conversations"), n, None)

----------------------------------------------------------------------------
(* C3 *)

\* C3: after an invocation whose event matched no handler of the primary
\* group (the catch-all ran), the stored document has no state entry for any
\* conversation of the user, and one write of the document was issued.
C3_UnknownResetsAndWrites ==
    \A p \in Procs :
        (inv[p].done /\ inv[p].handler = "on_unknown")
            => /\ inv[p].unknown
               /\ inv[p].saves = 1
               /\ section(saved_doc(p), "conversations") = EmptyDict
               /\ section(get_data(update[p].user), "conversations") = EmptyDict

----------------------------------------------------------------------------
(* C4 *)

\* C4 as stated: per event at most one read query and at most one write
\* query are issued against the store, whoever issues them.
C4_OneReadOneWrite ==
    \A p \in Procs :
        /\ inv[p].loads + inv[p].reads <= 1
        /\ inv[p].saves + inv[p].writes <= 1

\* C4 as amended: per event the persistence facade issues exactly one load
\* query, before any handler runs, and at most one save query (exactly one
\* once the invocation completed); handler queries are not counted.
C4_OneLoadOneSave ==
    \A p \in Procs :
        /\ inv[p].loads <= 1
        /\ inv[p].saves <= 1
        /\ pc[p] # "idle" => (inv[p].loads = 1 /\ inv[p].saves = 0)
        /\ inv[p].done => (inv[p].loads = 1 /\ inv[p].saves = 1)

\* A completed invocation in which handlers issued two writes of their own
\* (the upsert of on_start and the usage increment) besides the save.
C4_Witness ==
    \E p \in Procs : inv[p].done /\ inv[p].saves = 1 /\ inv[p].writes = 2

----------------------------------------------------------------------------
(* C5 *)

\* C5: when both UNKNOWN and ERROR were set in one invocation, its single
\* save is the wipe, the stored cell is NULL, and neither flag is left in
\* the dispatcher's or the persistence's scratch.
C5_WipeWins ==
    \A p \in Procs :
        (inv[p].done /\ inv[p].unknown /\ inv[p].error)
            => /\ saved_wipe(p)
               /\ inv[p].saves = 1
               /\ store[update[p].user].persistence_data = << >>
               /\ DOMAIN context_user_data(p) \cap OverrideFlags = {}
               /\ DOMAIN Get(p_user_data[p], update[p].user, EmptyDict)
                      \cap OverrideFlags = {}

\* A completed invocation that popped both flags, for a user with a row.
C5_Witness ==
    \E p \in Procs :
        /\ inv[p].done /\ inv[p].unknown /\ inv[p].error
        /\ store[update[p].user].exists

----------------------------------------------------------------------------
(* C6 *)

\* A document holds only the two sections, no override flag and no user
\* identity as a key.
clean_document(doc) ==
    /\ DOMAIN doc \subseteq {"user_data", "conversations"}
    /\ DOMAIN section(doc, "user_data") \cap (OverrideFlags \cup Users) = {}
    /\ DOMAIN section(doc, "conversations") \subseteq ConvNames

\* C6: no document written to the store holds the UNKNOWN flag, the ERROR
\* flag or the user identity as a key: every stored document and every
\* document bound to a save is clean.
C6_NoFlagsInDocument ==
    /\ \A u \in Users : clean_document(get_data(u))
    /\ \A p \in Procs : clean_document(saved_doc(p))

\* A document was stored by an invocation that had set UNKNOWN.
C6_Witness ==
    \E p \in Procs :
        /\ inv[p].done /\ inv[p].unknown /\ saved_document(p)
        /\ store[update[p].user].persistence_data = inv[p].saved[1]

----------------------------------------------------------------------------
(* C7 *)

\* C7: for a user with no row, an event that starts the memes conversation
\* at its entry state and changes no scratch data leaves the store holding
\* the document {"conversations": {"mortuary_conv": "MORTUARY_CHOOSE_ACTION"}}
\* for that user: the row is created and the save is not lost.
C7_NewUserDocumentStored ==
    \A p \in Procs :
        LET user == update[p].user IN
        (/\ inv[p].done
         /\ ~inv[p].row_found
         /\ inv[p].handler = "mortuary_start"
         /\ inv[p].returned = "MORTUARY_CHOOSE_ACTION"
         /\ ~inv[p].unknown /\ ~inv[p].error
         /\ context_user_data(p) = EmptyDict
         /\ started(h_conversations[p], user) = {"mortuary_conv"})
            => /\ store[user].exists
               /\ store[user].persistence_data =
                      << [conversations |->
                             [mortuary_conv |-> "MORTUARY_CHOOSE_ACTION"]] >>

----------------------------------------------------------------------------
(* C8 *)

\* C8: when the handler of conversation C returned the terminal token, C is
\* not-started in the handler's table and in the persistence, a document
\* bound to the save of that invocation has no entry for C, and it has no
\* conversations key at all when no other conversation is started.
C8_TerminalTokenCollapses ==
    \A p \in Procs :
        LET user == update[p].user
            c == inv[p].conv
        IN  (inv[p].done /\ inv[p].returned = END) =>
                /\ current_state(h_conversations[p], c, user) = None
                /\ current_state(p_conversations[p], c, user) = None
                /\ saved_document(p) =>
                      /\ c \notin DOMAIN section(saved_doc(p), "conversations")
                      /\ started(p_conversations[p], user) = {}
                             => "conversations" \notin DOMAIN saved_doc(p)

\* An invocation ended conversation C, bound a document to its save, the
\* document is the one stored and it has no conversations key.
C8_Witness ==
    \E p \in Procs :
        /\ inv[p].done /\ inv[p].returned = END /\ saved_document(p)
        /\ store[update[p].user].persistence_data = inv[p].saved[1]
        /\ "conversations" \notin DOMAIN saved_doc(p)

----------------------------------------------------------------------------
(* C9 *)

\* C9: a serialized document has at most the two sections and each section
\* present in it is non-empty: an empty scratch yields no user_data section
\* and no started conversation yields no conversations section.
C9_EmptySectionsOmitted ==
    \A p \in Procs :
        saved_document(p) =>
            LET doc == saved_doc(p) IN
            /\ DOMAIN doc \subseteq {"user_data", "conversations"}
            /\ \A k \in DOMAIN doc : doc[k] # EmptyDict

----------------------------------------------------------------------------
(* C10 *)

\* The invocation of p loaded a document with both sections non-empty and
\* completed without its handlers touching the working state: a handler
\* outside the conversations other than the catch-all ran, and no override
\* flag was set.
untouched_round_trip(p) ==
    /\ inv[p].done
    /\ inv[p].loaded # << >>
    /\ section(doc_of(inv[p].loaded), "user_data") # EmptyDict
    /\ section(doc_of(inv[p].loaded), "conversations") # EmptyDict
    /\ inv[p].conv = ""
    /\ inv[p].handler # "on_unknown"
    /\ ~inv[p].unknown /\ ~inv[p].error

\* C10: an invocation that loaded a document with both sections non-empty
\* and whose handlers did not touch the working state writes back a document
\* equal to the one it loaded.
C10_RoundTrip ==
    \A p \in Procs :
        untouched_round_trip(p)
            => /\ saved_document(p)
               /\ saved_doc(p) = doc_of(inv[p].loaded)

\* An invocation loaded a document with both sections non-empty and
\* completed without touching the working state.
C10_Witness ==
    \E p \in Procs : untouched_round_trip(p)

----------------------------------------------------------------------------
(* C11 *)

\* The callback query that asks conversation n to stop, and the callback
\* registered for it.
StopEvent(n) ==
    CASE n = "post_channel_conv" -> "POST_CHANNEL_STOP"
      [] n = "meetings_conv" -> "MEETINGS_STOP"
      [] n = "mortuary_conv" -> "MORTUARY_STOP"
      [] n = "principles_conv" -> "PRINCIPLES_STOP"

StopCallback(n) ==
    CASE n = "post_channel_conv" -> "post_channel_stop"
      [] n = "meetings_conv" -> "meetings_stop"
      [] n = "mortuary_conv" -> "mortuary_stop"
      [] n = "principles_conv" -> "principles_stop"

----------------------------------------------------------------------------
(* C12 *)

\* C12: an event matching a fallback of conversation C, delivered while C
\* is not started, is handled by that fallback of C.
C12_FallbackWhenNotStarted ==
    \A p \in Procs : \A n \in ConvNames :
        (/\ inv[p].done
         /\ loaded_state(p, n) = None
         /\ update[p].event = StopEvent(n))
        => inv[p].handler = StopCallback(n)

----------------------------------------------------------------------------
(* C13 *)

----------------------------------------------------------------------------
(* C14 *)

\* The settings the persistence facade works with.
ProperFlags(flags) ==
    flags.per_user /\ ~ flags.per_chat /\ ~ flags.per_message /\ flags.persistent

\* C14: a program that registers a conversation with per_user=false,
\* per_chat=true, per_message=true or persistent=false fails with a
\* configuration error at registration and never handles an event; a
\* program whose conversations all have the proper settings is registered
\* without error.
C14_RegistrationChecked ==
    \A p \in Procs :
        LET proper == \A n \in ConvNames : ProperFlags(registration[p].flags[n])
        IN  pc[p] # "import" =>
              /\ proper <=> registration[p].error = "none"
              /\ proper <=> pc[p] # "failed"
              /\ ~ proper => inv[p] = NewInvocation /\ update[p] = NoUpdate

\* principles_conv was given persistent=False, the other three
\* conversations the proper settings: the import failed on the last check.
C14_Witness ==
    /\ pc["p1"] = "failed"
    /\ registration["p1"].flags["principles_conv"] = Flags(TRUE, FALSE, FALSE, FALSE)
    /\ registration["p1"].error = "is not persistent"

----------------------------------------------------------------------------
(* C15 *)

\* C15: exactly one handler of the primary group runs per event: the first
\* in registration order that accepts it, the catch-all when none does.
\* When two conversations accept the event only the earlier one handles it:
\* the state of every other conversation is left as it was loaded (unless
\* the catch-all path ended all of them).
C15_FirstMatchOnly ==
    \A p \in Procs :
        LET user == update[p].user
            accepts(i) == check_update(i, loaded_convs(p), user, update[p].event) # "none"
            first == {i \in 1..Len(Group0) : accepts(i) /\ \A j \in 1..(i - 1) : ~ accepts(j)}
        IN  inv[p].done =>
              /\ Len(primary_runs(p)) = 1
              /\ first = {} => primary_runs(p)[1] = "on_unknown"
              /\ \A i \in first :
                    /\ primary_runs(p)[1] =
                          check_update(i, loaded_convs(p), user, update[p].event)
                    /\ inv[p].conv = Group0[i].conv
              /\ \A n \in ConvNames :
                    (n # inv[p].conv /\ ~ inv[p].unknown) =>
                        current_state(h_conversations[p], n, user) = loaded_state(p, n)

\* The post conversation waited for a message and the meetings conversation
\* for a name: the text went to post_channel_message only, the meetings
\* conversation still waits for the name.
C15_Witness ==
    /\ inv["p1"].done
    /\ loaded_state("p1", "post_channel_conv") = "POST_CHANNEL_GET_MESSAGE"
    /\ loaded_state("p1", "meetings_conv") = "MEETINGS_GET_NAME"
    /\ update["p1"].event = "text"
    /\ inv["p1"].ran = << "post_channel_message", "on_every" >>
    /\ current_state(h_conversations["p1"], "post_channel_conv", "u1")
          = "POST_CHANNEL_GET_PRIVACY"
    /\ current_state(h_conversations["p1"], "meetings_conv", "u1")
          = "MEETINGS_GET_NAME"

----------------------------------------------------------------------------
(* C16 *)

\* C16: in every invocation the usage-tracking handler on_every runs
\* exactly once, after the one handler of the primary group, whether that
\* was a normal handler, the catch-all or a handler that raised.
C16_EveryRunsOnce ==
    \A p \in Procs :
        inv[p].done =>
            /\ Len(inv[p].ran) = 2
            /\ inv[p].ran[1] = inv[p].handler
            /\ inv[p].ran[1] # "on_every"
            /\ inv[p].ran[2] = "on_every"

\* mortuary_start raised in the primary group and on_every still ran.
C16_Witness ==
    /\ inv["p1"].done
    /\ inv["p1"].returned = "raised"
    /\ inv["p1"].ran = << "mortuary_start", "on_every" >>

----------------------------------------------------------------------------
(* C17 *)

\* C17: an invocation that took the fault path (ERROR was flagged and the
\* save was the wipe) leaves both the document column and the meetings
\* timestamp column of the user's row NULL; never one NULL and the other
\* not.
C17_WipeNullsBoth ==
    \A p \in Procs :
        LET row == store[update[p].user]
        IN  (inv[p].done /\ inv[p].error /\ row.exists) =>
                /\ saved_wipe(p)
                /\ row.persistence_data = << >>
                /\ row.meetings_ts = << >>

\* A participant of the meetings (timestamp set, document stored) sent
\* /memes; the handler raised, the apology was sent and the wipe nulled
\* both columns.
C17_Witness ==
    /\ inv["p1"].done /\ inv["p1"].error
    /\ inv["p1"].handler = "mortuary_start" /\ inv["p1"].returned = "raised"
    /\ Get(section(doc_of(inv["p1"].loaded), "user_data"), "meetings_ts", None) = "ts"
    /\ store["u1"].exists
    /\ store["u1"].persistence_data = << >>
    /\ store["u1"].meetings_ts = << >>

----------------------------------------------------------------------------
(* C18 *)

\* C18: when the table holds more than one row for the user the load
\* raises LookupError (unless the SELECT itself failed) and the invocation
\* ends there: no instance ever dispatches an event of that user, and the
\* step in which the load raises runs no handler, issues no write and
\* leaves the rows and the memory of the instance as they were.
C18_DuplicateRowsAbort ==
    /\ [](\A p \in Procs :
            pc[p] \in {"group0", "group1", "tail"} =>
                ~ store[update[p].user].duplicated)
    /\ [][\A p \in Procs :
            (/\ store[update'[p].user].duplicated
             /\ inv'[p] # inv[p]
             /\ inv'[p].aborted # "StoreError") =>
                /\ inv'[p].aborted = "LookupError"
                /\ inv'[p].ran = << >>
                /\ inv'[p].writes = 0 /\ inv'[p].saves = 0
                /\ pc'[p] = "idle"
                /\ store' = store
                /\ p_user_data' = p_user_data
                /\ p_conversations' = p_conversations]_vars

\* The user has two rows with a stored document; the event ended in the
\* load with LookupError and the document is still there.
C18_Witness ==
    /\ inv["p1"].aborted = "LookupError"
    /\ update["p1"].event = "/memes"
    /\ store["u1"].duplicated
    /\ store["u1"].persistence_data # << >>
    /\ inv["p1"].ran = << >>

----------------------------------------------------------------------------
(* C19 *)

\* C19: a load that finds no row and a load that finds a row with a NULL
\* document give the dispatch the same working state: in both the memory
\* of the instance is left as its history made it, the dispatcher and the
\* conversation handlers take that memory, and the callback selected for
\* the event is the one that memory selects.
C19_AbsentRowAsNullDocument ==
    [][\A p \in Procs :
         (pc[p] = "idle" /\ pc'[p] = "group0" /\ inv'[p].loaded = << >>) =>
            /\ p_user_data'[p] = p_user_data[p]
            /\ p_conversations'[p] = p_conversations[p]
            /\ d_user_data'[p] = p_user_data[p]
            /\ h_conversations'[p] = p_conversations[p]
            /\ selected_callback(h_conversations'[p], update'[p].user,
                                 update'[p].event)
                 = selected_callback(p_conversations[p], update'[p].user,
                                     update'[p].event)]_vars

\* A warm instance that remembers a started conversation of the user has
\* loaded for a user without a row and is about to dispatch.
C19_Witness ==
    /\ pc["p1"] = "group0"
    /\ ~ inv["p1"].row_found
    /\ inv["p1"].loaded = << >>
    /\ started(h_conversations["p1"], "u1") # {}

----------------------------------------------------------------------------
(* C20 *)

\* C20: an invocation in which a store query failed after its retries
\* ends on the fault path and the user's document is NULL afterwards.
\* Stated here for the query of the load: once the load has raised the
\* store's error, the document of the user's row is NULL.
C20_StoreFailureWipes ==
    \A p \in Procs :
        LET row == store[update[p].user]
        IN  (/\ inv[p].aborted = "StoreError"
             /\ inv[p].save_query = "none"
             /\ row.exists) =>
                row.persistence_data = << >>

----------------------------------------------------------------------------
(* C21 *)

\* C21: when the query of the final save fails, the failure leaves the
\* invocation: the invocation does not end with success, the exception is
\* the store's, and the save was the only write to the document that the
\* invocation issued (no retry and no wipe after it).
C21_SaveFailurePropagates ==
    \A p \in Procs :
        inv[p].save_query = "fail" =>
            /\ ~ inv[p].done
            /\ inv[p].aborted = "StoreError"
            /\ inv[p].saves = 1
            /\ Len(inv[p].saved) = 1
            /\ pc[p] = "idle"

\* The save of a document failed and left the row as the load found it.
C21_Witness ==
    /\ inv["p1"].save_query = "fail"
    /\ inv["p1"].handler = "post_channel_start"
    /\ saved_document("p1")
    /\ store["u1"].persistence_data = inv["p1"].loaded
    /\ inv["p1"].saved[1] # inv["p1"].loaded

----------------------------------------------------------------------------
(* C22 *)

----------------------------------------------------------------------------
(* C23 *)

\* The fields of a meetings registration that is being entered.
MeetingsRegistrationKeys == {"meetings_name", "meetings_link",
                             "meetings_file_type", "meetings_file_id",
                             "meetings_bio", "meetings_caption"}

\* C23: after an invocation that ended with UNKNOWN the stored scratch
\* holds no key of a post-to-channel draft and, for a user who is not a
\* participant of the meetings, no field of a registration being entered.
C23_UnknownKeepsNoDraft ==
    \A p \in Procs :
        LET scratch == section(doc_of(store[update[p].user].persistence_data),
                               "user_data")
        IN  (inv[p].done /\ inv[p].unknown /\ saved_document(p)) =>
                /\ DOMAIN scratch \cap PostChannelKeys = {}
                /\ "in_meetings" \notin DOMAIN scratch =>
                      DOMAIN scratch \cap MeetingsRegistrationKeys = {}

----------------------------------------------------------------------------
(* C24 *)

\* C24: under any interleaving of invocations for different users, a step
\* of an invocation for user U leaves the row of every other user as it
\* was, and the document saved for U holds the scratch and the conversation
\* states that the instance keeps for U and nothing kept for another user.
C24_UsersIsolated ==
    /\ [][\A p \in Procs :
            pc'[p] # pc[p] =>
                \A v \in Users \ {update'[p].user} : store'[v] = store[v]]_vars
    /\ [](\A p \in Procs :
            LET user == update[p].user
                doc == saved_doc(p)
            IN  (inv[p].done /\ saved_document(p)) =>
                    /\ DOMAIN doc \subseteq {"user_data", "conversations"}
                    /\ section(doc, "user_data") = Get(p_user_data[p], user, EmptyDict)
                    /\ DOMAIN section(doc, "user_data") \cap Users = {}
                    /\ \A n \in DOMAIN section(doc, "conversations") :
                          doc["conversations"][n]
                            = current_state(p_conversations[p], n, user))

\* The first instance served u2 (/memes) and then u1 (/principles) while
\* the second instance was handling an event of u2: the document saved for
\* u1 has the principles conversation only, the row of u2 keeps its own.
C24_Witness ==
    /\ inv["p1"].done /\ update["p1"].user = "u1" /\ saved_document("p1")
    /\ pc["p2"] = "tail" /\ update["p2"].user = "u2"
    /\ current_state(p_conversations["p1"], "mortuary_conv", "u2")
          = "MORTUARY_CHOOSE_ACTION"
    /\ DOMAIN section(saved_doc("p1"), "conversations") = {"principles_conv"}
    /\ "mortuary_conv" \in DOMAIN section(doc_of(store["u2"].persistence_data),
                                          "conversations")

----------------------------------------------------------------------------
(* C25 *)

\* Both instances have finished an invocation for the same user, and the
\* second loaded before the first saved.
overlapped ==
    /\ inv["p1"].done /\ inv["p2"].done
    /\ update["p1"].user = update["p2"].user
    /\ inv["p1"].loaded = inv["p2"].loaded

\* C25: when two invocations for the same user overlap, every save replaces
\* the stored document by the value that invocation bound, so at the end
\* the stored document is exactly the value bound by one of the two saves
\* (the one applied last) and never a combination of the two.
C25_LastWriteWins ==
    /\ [][\A p \in Procs :
            (pc[p] = "tail" /\ pc'[p] = "idle" /\ store[update[p].user].exists) =>
                store'[update[p].user].persistence_data = inv'[p].saved[1]]_vars
    /\ [](overlapped =>
            store[update["p1"].user].persistence_data
                \in {inv["p1"].saved[1], inv["p2"].saved[1]})

\* One invocation started the memes conversation, the overlapping one the
\* principles conversation and saved last: the stored document has the
\* principles conversation only.
C25_Witness ==
    /\ overlapped
    /\ saved_document("p1") /\ saved_document("p2")
    /\ DOMAIN section(saved_doc("p1"), "conversations") = {"mortuary_conv"}
    /\ DOMAIN section(saved_doc("p2"), "conversations") = {"principles_conv"}
    /\ store["u1"].persistence_data = inv["p2"].saved[1]

----------------------------------------------------------------------------
(* C26 *)

\* The complete serialization of what instance p keeps for the user: the
\* whole scratch and every conversation with a state.
whole_document(pud, pconv, user, doc) ==
    LET names == {n \in ConvNames : current_state(pconv, n, user) # None}
    IN  /\ DOMAIN doc \subseteq {"user_data", "conversations"}
        /\ "user_data" \in DOMAIN doc <=> user \in DOMAIN pud
        /\ "user_data" \in DOMAIN doc => doc["user_data"] = pud[user]
        /\ "conversations" \in DOMAIN doc <=> names # {}
        /\ "conversations" \in DOMAIN doc =>
              /\ DOMAIN doc["conversations"] = names
              /\ \A n \in names :
                    doc["conversations"][n] = current_state(pconv, n, user)

\* C26: the document column changes only in the save of an invocation for
\* that user, and its new value is NULL or the complete serialization of
\* the working state of the user; no step changes one section or one key
\* of the stored document.
C26_WholeDocumentWritten ==
    [][\A u \in Users :
         store'[u].persistence_data # store[u].persistence_data =>
            \E p \in Procs :
                /\ pc[p] = "tail" /\ pc'[p] = "idle" /\ update[p].user = u
                /\ \/ store'[u].persistence_data = << >>
                   \/ /\ store'[u].persistence_data # << >>
                      /\ whole_document(p_user_data'[p], p_conversations'[p], u,
                                        store'[u].persistence_data[1])]_vars

\* A stored document with a post draft and a meetings state was replaced
\* by a save whose scratch and conversations both differ from it.
C26_Witness ==
    /\ inv["p1"].done /\ saved_document("p1")
    /\ inv["p1"].loaded # << >>
    /\ store["u1"].persistence_data = inv["p1"].saved[1]
    /\ section(saved_doc("p1"), "user_data")
          # section(doc_of(inv["p1"].loaded), "user_data")
    /\ section(saved_doc("p1"), "conversations")
          # section(doc_of(inv["p1"].loaded), "conversations")
    /\ loaded_state("p1", "meetings_conv") = "MEETINGS_GET_BIO"

----------------------------------------------------------------------------
(* C27 *)

\* C27: the texts of the read and of the write of two finished invocations
\* that took the same path (both saved or both wiped) are identical,
\* whatever the users and the documents; no text holds a user id, and the
\* user id and the document are found among the bound parameters.
C27_QueryTextsFixed ==
    \A p \in Procs :
        /\ \A q \in Procs :
              (inv[p].done /\ inv[q].done /\ inv[p].error = inv[q].error) =>
                  inv[p].texts = inv[q].texts
        /\ inv[p].done =>
              /\ Len(inv[p].texts) = 2 /\ Len(inv[p].parameters) = 2
              /\ \A i \in 1..2 :
                    /\ \A j \in 1..Len(inv[p].texts[i]) :
                          inv[p].texts[i][j] \notin Users
                    /\ inv[p].parameters[i]["user_id"] = update[p].user
              /\ saved_document(p) =>
                    inv[p].parameters[2]["data"] = saved_doc(p)

\* Two invocations for different users saved different documents with the
\* same two query texts.
C27_Witness ==
    /\ inv["p1"].done /\ inv["p2"].done
    /\ update["p1"].user = "u1" /\ update["p2"].user = "u2"
    /\ saved_document("p1") /\ saved_document("p2")
    /\ saved_doc("p1") # saved_doc("p2")
    /\ inv["p1"].texts = inv["p2"].texts

----------------------------------------------------------------------------
(* C28 *)

\* C28: in one invocation the document is loaded before any handler runs
\* (nothing ran and nothing was written while no load was issued), the
\* flags are inspected and the write is issued only when the handlers of
\* both groups have run, the reset of an unknown update is in the document
\* that is serialized, and the one document write is the last step: it is
\* issued in the step that ends the invocation, after the load, as the
\* second and last query of the persistence.
C28_CycleOrder ==
    /\ [] \A p \in Procs :
          /\ inv[p].loads = 0 => (inv[p].ran = << >> /\ inv[p].saves = 0)
          /\ inv[p].ran # << >> => inv[p].loads = 1
          /\ (has_saved(p) \/ inv[p].unknown \/ inv[p].error) =>
                (Len(inv[p].ran) = 2 /\ pc[p] = "idle")
          /\ (has_saved(p) /\ inv[p].unknown /\ saved_document(p)) =>
                \A n \in ConvNames :
                    Get(section(saved_doc(p), "conversations"), n, None) = None
          /\ inv[p].done =>
                /\ inv[p].saves = 1 /\ has_saved(p)
                /\ Len(inv[p].texts) = 2
                /\ inv[p].texts[2] =
                      update_database_query(update[p].user, inv[p].error,
                                            inv[p].saved[1]).text
    /\ [][\A p \in Procs :
            inv'[p].saves # inv[p].saves =>
                /\ inv[p].loads = 1 /\ Len(inv[p].ran) = 2
                /\ pc[p] = "tail" /\ pc'[p] = "idle"
                /\ inv'[p].saves = 1]_vars

\* An invocation whose handlers changed nothing wrote the document it had
\* loaded, and an unknown update inside a conversation was saved with the
\* conversation reset.
C28_Witness ==
    /\ inv["p1"].done /\ saved_document("p1")
    /\ inv["p1"].saves = 1
    /\ \/ inv["p1"].saved[1] = inv["p1"].loaded
       \/ /\ inv["p1"].unknown
          /\ \E n \in ConvNames : loaded_state("p1", n) # None

----------------------------------------------------------------------------
(* C29 *)

\* C29: the wipe after a handler fault does not depend on the notifications
\* of on_error: whatever the outcome of the developer alert and of the
\* apology reply, a finished invocation in which a handler raised has seen
\* the ERROR flag and its one write was the wipe.
C29_WipeWhateverNotifications ==
    \A p \in Procs :
        (inv[p].done /\ inv[p].raised) => (inv[p].error /\ saved_wipe(p))

----------------------------------------------------------------------------
(* C30 *)

\* C30: the write of an invocation that did not see the ERROR flag changes
\* nothing but the document column of the row of its user: the meetings
\* timestamp, the usage counter and the existence of that row, and every
\* other row, are as before the write; a write of the persistence that
\* changes the meetings timestamp is the write of a faulted invocation.
C30_SaveChangesDocumentOnly ==
    [][\A p \in Procs :
         (pc[p] = "tail" /\ pc'[p] = "idle") =>
            LET u == update[p].user
            IN  /\ \A v \in Users \ {u} : store'[v] = store[v]
                /\ ~ inv'[p].error =>
                      store'[u] = [store[u] EXCEPT !.persistence_data =
                                                      store'[u].persistence_data]
                /\ store'[u].meetings_ts # store[u].meetings_ts => inv'[p].error]_vars

\* A normal save replaced the document of a user whose row holds a meetings
\* timestamp, and the timestamp is still there.
C30_Witness ==
    /\ inv["p1"].done /\ saved_document("p1") /\ ~ inv["p1"].error
    /\ inv["p1"].saved[1] # inv["p1"].loaded
    /\ store["u1"].persistence_data = inv["p1"].saved[1]
    /\ store["u1"].meetings_ts # << >>
    /\ inv["p1"].handler \notin {"meetings_start", "meetings_stop"}

----------------------------------------------------------------------------
(* C31 *)

\* The state of a conversation in the document stored for the user.
stored_state(user, name) ==
    Get(section(doc_of(store[user].persistence_data), "conversations"), name, None)

\* C31: an invocation handled by an entry point, a state handler or a
\* fallback of conversation C, in which no handler raised and which saw
\* neither UNKNOWN nor ERROR, leaves a
\* stored document in which every other conversation of the user has the
\* state it had in the document the invocation loaded.
C31_ConversationsIndependent ==
    \A p \in Procs :
        (inv[p].done /\ inv[p].conv # "" /\ ~ inv[p].raised
            /\ ~ inv[p].unknown /\ ~ inv[p].error) =>
            \A n \in ConvNames \ {inv[p].conv} :
                stored_state(update[p].user, n) = loaded_state(p, n)

----------------------------------------------------------------------------
(* C37 *)

\* The conversations among the handlers of dispatcher.handlers[0].
registered_convs(p) ==
    {Group0[registration[p].handlers[i]].conv :
        i \in 1..Len(registration[p].handlers)} \ {""}

\* C37: a rejected registration has no effect on the handler table: after
\* add_handlers has run, no conversation that add_handler refuses is among
\* the handlers of the dispatcher, and the table of an instance whose
\* import succeeded holds every handler.
C37_RejectedNotRegistered ==
    \A p \in Procs :
        pc[p] # "import" =>
            /\ \A n \in registered_convs(p) :
                  add_handler(registration[p].flags[n]) = "none"
            /\ registration[p].error = "none" =>
                  registration[p].handlers = Registered.handlers

----------------------------------------------------------------------------
(* C38 *)

\* The seen_memes list of a scratch, empty when the key is missing.
seen_of(ud) == Get(ud, "seen_memes", << >>)

\* A list of distinct ids of the catalogue.
distinct_memes(seen) ==
    /\ \A i \in 1..Len(seen) : seen[i] \in MemeIds
    /\ \A i, j \in 1..Len(seen) : seen[i] = seen[j] => i = j

\* C38: in every working scratch and every stored document seen_memes holds
\* distinct ids of the catalogue, and a step of a primary handler changes
\* the list in one of three ways only: mortuary_show_meme appends one id
\* the list did not hold, mortuary_start_over empties it and appends one
\* id, or empties it when its reply fails; with the whole catalogue in the
\* list mortuary_show_meme leaves the list as it is, and so does every
\* other handler.
C38_UnseenMemesOnly ==
    /\ [](/\ \A p \in Procs : \A u \in DOMAIN d_user_data[p] :
                distinct_memes(seen_of(d_user_data[p][u]))
          /\ \A u \in Users :
                distinct_memes(seen_of(section(doc_of(store[u].persistence_data),
                                               "user_data"))))
    /\ [][\A p \in Procs :
            (pc[p] = "group0" /\ pc'[p] # "group0") =>
                LET before == seen_of(context_user_data(p))
                    after == seen_of(d_user_data'[p][update[p].user])
                    handler == inv'[p].handler
                IN  \/ after = before
                    \/ /\ handler = "mortuary_show_meme"
                       /\ \E m \in MemeIds :
                             /\ \A i \in 1..Len(before) : before[i] # m
                             /\ after = Append(before, m)
                    \/ /\ handler = "mortuary_start_over"
                       /\ \/ after = << >>
                          \/ \E m \in MemeIds : after = << m >>]_vars

\* With every meme of the catalogue in the list a show step went through
\* and the list was saved as it was loaded.
C38_Witness ==
    /\ inv["p1"].done /\ inv["p1"].handler = "mortuary_show_meme"
    /\ ~ inv["p1"].raised /\ saved_document("p1")
    /\ Len(seen_of(section(saved_doc("p1"), "user_data"))) = NumMemes
    /\ seen_of(section(saved_doc("p1"), "user_data"))
          = seen_of(section(doc_of(inv["p1"].loaded), "user_data"))

----------------------------------------------------------------------------
(* C32 *)

\* The states a table of conversations records for its users are states
\* the conversation declares (None stands for no state).
declared_states(convs) ==
    \A n \in ConvNames : \A u \in DOMAIN convs[n] :
        convs[n][u] \in DOMAIN conv_states(n) \cup {None}

\* C32: the state recorded for a conversation, in the tables of the
\* handlers, in the persistence and in every stored document, is a state
\* declared in the table of that conversation, and the token a primary
\* callback of a conversation returns is a declared state of it, the end
\* token or none.
C32_DeclaredStatesOnly ==
    /\ \A p \in Procs :
          /\ declared_states(h_conversations[p])
          /\ declared_states(p_conversations[p])
          /\ (inv[p].conv # "" /\ ~ inv[p].raised) =>
                inv[p].returned \in DOMAIN conv_states(inv[p].conv) \cup {END, None}
    /\ \A u \in Users :
          LET convs == section(doc_of(store[u].persistence_data), "conversations")
          IN  \A n \in DOMAIN convs :
                 n \in ConvNames /\ convs[n] \in DOMAIN conv_states(n)

\* A participant whose meetings conversation was not started opened the
\* meetings menu: the state meetings_start returned is recorded in the
\* stored document.
C32_Witness ==
    /\ inv["p1"].done /\ inv["p1"].handler = "meetings_start"
    /\ inv["p1"].returned = "MEETINGS_CHOOSE_ACTION"
    /\ loaded_state("p1", "meetings_conv") # "MEETINGS_CHOOSE_ACTION"
    /\ stored_state("u1", "meetings_conv") = "MEETINGS_CHOOSE_ACTION"

----------------------------------------------------------------------------
(* C36 *)

\* Events of the post-to-channel specification: the command that starts a
\* post, a text message, the choice of the footer, the confirmation, the
\* fallback and a command of another handler.
PublishEvents == {"/publish", "text", "POST_CHANNEL_PUBLIC",
                  "POST_CHANNEL_CONFIRM_SENDING", "POST_CHANNEL_STOP", "/help"}

\* One warm process takes a user whose row is new through the
\* post-to-channel flow; the instance is recycled at any time between
\* events.
NextPublish ==
    \/ \E e \in PublishEvents : load_persistence_data("p1", "u1", e)
    \/ cold_start("p1")
    \/ post_channel_start("p1")
    \/ post_channel_message("p1")
    \/ post_channel_privacy("p1")
    \/ post_channel_confirm_sending("p1")
    \/ post_channel_stop("p1")
    \/ on_help("p1")
    \/ on_unknown("p1")
    \/ on_every("p1")
    \/ process_update_tail("p1")

SpecPublish == InitTwo /\ [][NextPublish]_vars

\* The keys post_channel_start puts in the scratch.
FooterKeys == {"post_channel_public_footer", "post_channel_private_footer",
               "post_channel_footer_max_length"}

\* C36: after a completed invocation the stored document holds the footer
\* keys of a post when the post-to-channel conversation is recorded in a
\* state, and no post_channel_* key when it is not.
C36_DraftKeysWhileStarted ==
    \A p \in Procs :
        inv[p].done =>
            LET doc == doc_of(store[update[p].user].persistence_data)
                scratch == section(doc, "user_data")
            IN  IF stored_state(update[p].user, "post_channel_conv") # None
                THEN FooterKeys \subseteq DOMAIN scratch
                ELSE DOMAIN scratch \cap PostChannelKeys = {}

----------------------------------------------------------------------------
(* The meetings flow from an empty store: C33, C34, C35 *)

\* Events of the meetings specification: the command that opens the
\* conversation, the answers of the questionnaire, the buttons of the
\* confirmations, of the change and of the removal, and the fallback.
MeetingsEvents == {"/meetings", "text", "photo", "video",
                   "MEETINGS_CONFIRM_PARTICIPATION", "MEETINGS_CHANGE",
                   "MEETINGS_CONFIRM_CHANGE", "MEETINGS_REMOVE",
                   "MEETINGS_CONFIRM_REMOVAL", "MEETINGS_STOP"}

\* One warm process takes a user whose row is new through the meetings
\* conversation; the instance is recycled at any time between events.
NextMeetings ==
    \/ \E e \in MeetingsEvents : load_persistence_data("p1", "u1", e)
    \/ cold_start("p1")
    \/ meetings_start("p1")
    \/ meetings_name("p1")
    \/ meetings_photo("p1")
    \/ meetings_bio("p1")
    \/ meetings_confirm_participation("p1")
    \/ meetings_change("p1")
    \/ meetings_confirm_change("p1")
    \/ meetings_remove("p1")
    \/ meetings_confirm_removal("p1")
    \/ meetings_stop("p1")
    \/ on_unknown("p1")
    \/ on_every("p1")
    \/ process_update_tail("p1")

SpecMeetings == InitTwo /\ [][NextMeetings]_vars

\* The scratch of the document stored for a user.
stored_scratch(user) == section(doc_of(store[user].persistence_data), "user_data")

\* C33: after a completed invocation the meetings timestamp of the user's
\* row is not NULL exactly when the scratch of the stored document has
\* in_meetings true.
C33_TimestampWithFlag ==
    \A p \in Procs :
        inv[p].done =>
            (store[update[p].user].meetings_ts # << >>
                <=> Get(stored_scratch(update[p].user), "in_meetings", FALSE) = TRUE)

\* The stored document of a user has in_meetings true.
stored_in_meetings(user) == Get(stored_scratch(user), "in_meetings", FALSE) = TRUE

\* C34: the stored in_meetings flag of a user becomes true only in an
\* invocation handled by the callback of the participation-confirmation
\* state; a callback moves the meetings conversation to that state only as
\* meetings_bio handled in the bio state, to the bio state only as
\* meetings_photo handled in the photo state and to the photo state only
\* as meetings_name handled in the name state; and a document that records
\* the confirmation state holds a name, a PHOTO or VIDEO file and a
\* caption.
C34_ParticipationAfterQuestionnaire ==
    /\ [] \A u \in Users :
            stored_state(u, "meetings_conv") = "MEETINGS_GET_PARTICIPATION_CONFIRMATION" =>
                /\ "meetings_name" \in DOMAIN stored_scratch(u)
                /\ Get(stored_scratch(u), "meetings_file_type", None) \in {"PHOTO", "VIDEO"}
                /\ "meetings_caption" \in DOMAIN stored_scratch(u)
    /\ [][\A p \in Procs :
            /\ (pc[p] = "tail" /\ pc'[p] = "idle") =>
                  ((~ stored_in_meetings(update[p].user)
                        /\ stored_in_meetings(update[p].user)') =>
                      inv[p].handler = "meetings_confirm_participation")
            /\ (pc[p] = "group0" /\ pc'[p] # "group0") =>
                  LET before == current_state(h_conversations[p], "meetings_conv",
                                              update[p].user)
                      after == current_state(h_conversations'[p], "meetings_conv",
                                             update[p].user)
                      handler == inv'[p].handler
                  IN  /\ (after = "MEETINGS_GET_PARTICIPATION_CONFIRMATION"
                            /\ before # after) =>
                              handler = "meetings_bio" /\ before = "MEETINGS_GET_BIO"
                      /\ (after = "MEETINGS_GET_BIO" /\ before # after) =>
                              handler = "meetings_photo" /\ before = "MEETINGS_GET_PHOTO"
                      /\ (after = "MEETINGS_GET_PHOTO" /\ before # after) =>
                              handler = "meetings_name" /\ before = "MEETINGS_GET_NAME"]_vars

\* C35: when a participant who confirmed the change of the profile leaves
\* the questionnaire by the fallback of the meetings conversation, the
\* profile fields of the stored document are those that were stored when
\* the change was confirmed.
C35_AbortedChangeKeepsProfile ==
    \A p \in Procs :
        (/\ inv[p].done /\ inv[p].handler = "meetings_stop"
         /\ ~ inv[p].raised /\ ~ inv[p].error
         /\ inv[p].profile # << >>
         /\ stored_in_meetings(update[p].user)) =>
            profile_fields(stored_scratch(update[p].user)) = inv[p].profile[1]

====
